---- MODULE Spec2Model ----
(***************************************************************************)
(* The Update and Clean workflows of sacloud-random-tools (src/src/cmd.rs) *)
(* run against the provider's REST API (src/src/api.rs), for one prefix.   *)
(*                                                                         *)
(* The provider is the environment: it holds the named resources, their    *)
(* power and availability status, the router's firewall setting, and it    *)
(* finishes accepted deletions and power changes on its own.  One workflow *)
(* runs at a time; every awaited API call is one step of the run.          *)
(***************************************************************************)
EXTENDS Integers, Sequences, FiniteSets, TLC

\* ------------------------------------------------------------------ bounds
MaxRuns == 2      \* workflow invocations in one behaviour
MaxFaults == 1    \* provider/transport failures injected in one behaviour

\* --------------------------------------------------------------- constants
Kinds == {"vpc", "sw", "srv", "disk", "note", "key"}
Powered == {"vpc", "srv"}          \* kinds that carry an instance status
Staged == {"vpc", "disk"}          \* kinds whose availability is transitional after create
Keys == {"k1", "k2"}               \* public key texts
NoKey == "none"

VARIABLES
    \* provider
    cnt,        \* cnt[k]: resources of kind k bearing the prefix's equipment name
    deleting,   \* kinds whose resource has an accepted, unfinished delete
    power,      \* power[k], k in Powered: "up" | "down" | "cleaning" | "unknown"
    avail,      \* avail[k], k in Staged: "migrating" | "available"
    swConn,     \* the switch is connected to the VPC router
    srvConn,    \* the server is connected to the switch
    fwStored,   \* Firewall.Enabled of the router's stored settings
    fwActive,   \* Firewall.Enabled of the router's applied configuration
    keyStored,  \* public key text of the stored SSH key, NoKey when absent
    noteStale,  \* the stored note content differs from SETUP_SHELL_NOTE_CONTENT
    \* the running command
    cmd,        \* "none" | "update" | "clean"
    pc,         \* position in the command's run(); "done" when it returned
    pubkey,     \* the public key read by Update
    found,      \* Clean: kinds whose try_get returned Some
    guard,      \* Update: the FirewallGuard value is alive
    outcome,    \* result of the run: "running" | "ok" | an error name | "panic"
    \* history
    runs, faults,
    faultAt,    \* position of the failure injected in the current run, "none" without one
    log,        \* mutating requests and decisive observations of the current run
    sawNone,    \* kinds whose try_get returned None in the current run
    prev,       \* the previous run: command, outcome, key, position of its failure
    startCnt,   \* cnt when the current run started
    \* ServiceScript::wait_for_done and the remote host it probes
    phase,      \* "idle" | "start" | "finish" | "returned"
    elapsed,    \* start_waiting.elapsed() in seconds, at the top of the loop
    doneResult, \* "pending" | "ok" | an Error name
    proc,       \* the setup script's process: "pending" | "running" | "gone"
    sentinels,  \* the not_yet_* marker files present on the host
    sawStart,   \* what the poll that ended the start phase observed
    \* one call of a wait loop of api.rs
    waitKind,   \* "idle" | "available" | "up" | "down" | "delete"
    waitPc,     \* "polling" | "returned"
    seen,       \* what each fetch of the call observed, in order
    sleeps,     \* sleep(2s) calls made
    waitResult, \* "pending" | "ok" | an Error name
    \* one call of search in api.rs
    searchPc,         \* "idle" | "looping" | "returned"
    total,            \* Total of the provider's listing
    index_from,       \* the From of the next request
    result_resources, \* resources collected so far
    searchResult,     \* [kind: "pending" | "ok" | an Error name, from: the From an error carries]
    requests,         \* the From of each request sent
    responses,        \* the response to each request
    \* one call of search_single_resource in api.rs
    resolution,       \* [kind: "pending" | "None" | "Some" | an Error name,
                      \*  n: the count an error carries, picked: the resource returned]
    \* one call of request_api or request_api_for_resource in api.rs
    reqPc,            \* "idle" | "call" | "returned"
    reply,            \* what the provider answers: status code, body, success markers
    resource_name,    \* the resource_name argument: "None" | "Some"
    apiResult,        \* [by: the function called, kind: "pending" | "ok" | an Error name,
                      \*  code: the status code an error carries]
    \* one call of Session::connect in ssh.rs
    sshPc,            \* "idle" | "probe" | "handshake" | "subsystem" | "returned"
    stage,            \* the new_session call under way: "session" | "sftp_session"
    now,              \* start_time.elapsed() of that call, in seconds
    tickAt,           \* deadline of the next tick of new_session's interval
    probeTickAt,      \* deadline of the next tick of wait_for_ssh_connectable's interval
    probeBeat,        \* parity of the failed rounds of wait_for_ssh_connectable
    probed,           \* the TCP probe succeeded since the last handshake attempt
    attempts,         \* handshake attempts of that call
    failedAt,         \* elapsed() read after the last failed handshake
    late,             \* handshake failures of that call read after the budget
    \* two Update runs on one prefix, followed through their first two steps
    racePc,           \* racePc[r]: "idle" | "vpc_get" | "vpc_create" | "sw_get" | "sw_create" | "done"
    raceOut,          \* raceOut[r]: "none" | "running" | "passed" | "TooManyResources"
    raceSaw,          \* raceSaw[r]: kinds whose try_get returned None in r's current run
    raceRuns,         \* raceRuns[r]: runs started by r
    raceCnt,          \* raceCnt[k]: resources of kind k bearing the equipment name
    \* one info value taken through to_value and from_value
    jsonPc,           \* "idle" | "new" | "built" | "serialized" | "parsed"
    jsonKind,         \* "Server" | "Disk" | "SshPublicKey" | "Switch"
    jsonId,           \* the ID the provider gives the entity
    jsonInfo,         \* the info value built, one entry per field of the struct
    jsonDoc,          \* serde_json::to_value(&info)
    jsonIn,           \* the value handed to from_value
    jsonEntity,       \* what from_value returned
    \* ServiceScript::prepare_for_server
    puts,             \* the files the local process wrote with put_file, in order
    sshResult         \* [kind: "pending" | "ok" | "error", of: the attempt whose error it is]

provider == <<cnt, deleting, power, avail, swConn, srvConn, fwStored, fwActive,
              keyStored, noteStale>>
local == <<cmd, pc, pubkey, found, guard, outcome>>
hist == <<runs, faults, faultAt, log, sawNone, prev, startCnt>>
workflow == <<provider, local, hist>>
remote == <<phase, elapsed, doneResult, proc, sentinels, sawStart>>
waits == <<waitKind, waitPc, seen, sleeps, waitResult>>
pages == <<searchPc, total, index_from, result_resources, searchResult, requests, responses>>
resolving == <<resolution>>
requesting == <<reqPc, reply, resource_name, apiResult>>
connecting == <<sshPc, stage, now, tickAt, probeTickAt, probeBeat, probed, attempts,
                failedAt, late, sshResult>>
racing == <<racePc, raceOut, raceSaw, raceRuns, raceCnt>>
preparing == <<puts>>
encoding == <<jsonPc, jsonKind, jsonId, jsonInfo, jsonDoc, jsonIn, jsonEntity>>
calls == <<resolving, requesting, connecting, racing, preparing, encoding>>
vars == <<workflow, remote, waits, pages, calls>>

\* ------------------------------------------------------------ api.rs helpers

\* exactly one match taken for none
search_single_resource_OffByOne(n) ==
    IF n > 1 THEN "TooManyResources"
    ELSE "None"

\* the first of several matches is taken
search_single_resource_First(n) ==
    IF n < 1 THEN "None"
    ELSE "Some"

\* api.rs search_single_resource: verdict on the number of matches
search_single_resource(n) ==
    IF n > 1 THEN "TooManyResources"
    ELSE IF n < 1 THEN "None"
    ELSE "Some"

\* a value of the failed set is not recognised as one
wait_resource_status_NoFailedSet(status, working, success, failed) ==
    IF status = "unknown" THEN "ResourceApiWaitStatusNotFound"
    ELSE IF status \in success THEN "ok"
    ELSE IF status \notin working THEN "ResourceApiWaitStatusUnknown"
    ELSE "retry"

\* a value of no set is polled again
wait_resource_status_UnknownRetries(status, working, success, failed) ==
    IF status = "unknown" THEN "ResourceApiWaitStatusNotFound"
    ELSE IF status \in failed THEN "ResourceApiWaitStatusFailed"
    ELSE IF status \in success THEN "ok"
    ELSE "retry"

\* api.rs wait_resource_status: verdict of one poll on the observed status
wait_resource_status(status, working, success, failed) ==
    IF status = "unknown" THEN "ResourceApiWaitStatusNotFound"
    ELSE IF status \in failed THEN "ResourceApiWaitStatusFailed"
    ELSE IF status \in success THEN "ok"
    ELSE IF status \notin working THEN "ResourceApiWaitStatusUnknown"
    ELSE "retry"

\* a resource that is still down is polled again
wait_resource_up_DownWorks(status) ==
    wait_resource_status(status, {"cleaning", "down"}, {"up"}, {})
wait_resource_up(status) == wait_resource_status(status, {"cleaning"}, {"up"}, {"down"})
wait_resource_down(status) == wait_resource_status(status, {"up", "cleaning"}, {"down"}, {})
\* "uploading" is missing from the working set
wait_resource_available_NoUploading(status) ==
    wait_resource_status(status, {"migrating"}, {"available"}, {"failed"})
wait_resource_available(status) ==
    wait_resource_status(status, {"uploading", "migrating"}, {"available"}, {"failed"})

\* EquipmentKind::name: the suffix appended to "<prefix>-"
name(k) ==
    CASE k = "srv" -> "server"
      [] k = "disk" -> "server"
      [] k = "key" -> "pub-key"
      [] k = "sw" -> "switch"
      [] k = "vpc" -> "vpc-router"
      [] k = "note" -> "server-setup-shell"

Exists(k) == cnt[k] > 0
Availability(k) == IF k \in Staged THEN avail[k] ELSE "available"

\* ---------------------------------------------------------------- Init
TypeOK ==
    /\ cnt \in [Kinds -> 0..2]
    /\ deleting \subseteq Kinds
    /\ power \in [Powered -> {"up", "down", "cleaning", "unknown"}]
    /\ avail \in [Staged -> {"migrating", "available"}]
    /\ swConn \in BOOLEAN /\ srvConn \in BOOLEAN
    /\ fwStored \in BOOLEAN /\ fwActive \in BOOLEAN
    /\ keyStored \in Keys \cup {NoKey}
    /\ noteStale \in BOOLEAN
    /\ cmd \in {"none", "update", "clean"}
    /\ guard \in BOOLEAN
    /\ found \subseteq Kinds
    /\ runs \in 0..MaxRuns /\ faults \in 0..MaxFaults
    /\ \A k \in Kinds : k \in deleting => cnt[k] > 0

\* a part of the program that is not running in the behaviour at hand
RemoteParked ==
    /\ phase = "idle" /\ elapsed = 0 /\ doneResult = "pending"
    /\ proc = "pending" /\ sentinels = {} /\ sawStart = "none"
WaitsParked ==
    /\ waitKind = "idle" /\ waitPc = "returned" /\ seen = <<>>
    /\ sleeps = 0 /\ waitResult = "pending"
\* a number field that is absent from a response, or is not a u64
Missing == 0 - 1
PagesParked ==
    /\ searchPc = "idle" /\ total = 0 /\ index_from = 0
    /\ result_resources = <<>> /\ searchResult = [kind |-> "pending", from |-> Missing]
    /\ requests = <<>> /\ responses = <<>>
ResolveParked == resolution = [kind |-> "pending", n |-> Missing, picked |-> <<>>]
NoReply ==
    [code |-> Missing, body |-> "none", is_ok |-> "absent", Success |-> "absent",
     resource |-> "absent"]
RequestParked ==
    /\ reqPc = "idle" /\ reply = NoReply /\ resource_name = "None"
    /\ apiResult = [by |-> "none", kind |-> "pending", code |-> Missing]
SshParked ==
    /\ sshPc = "idle" /\ stage = "session" /\ now = 0 /\ tickAt = 0 /\ probeTickAt = 0
    /\ probeBeat = 0 /\ probed = FALSE /\ attempts = 0 /\ failedAt = Missing /\ late = 0
    /\ sshResult = [kind |-> "pending", of |-> Missing]
Runners == {1, 2}
RaceKinds == {"vpc", "sw"}
RaceParked ==
    /\ racePc = [r \in Runners |-> "idle"] /\ raceOut = [r \in Runners |-> "none"]
    /\ raceSaw = [r \in Runners |-> {}] /\ raceRuns = [r \in Runners |-> 0]
    /\ raceCnt = [k \in RaceKinds |-> 0]
PrepareParked == puts = <<>>
\* a Rust or JSON value: tag, member key, text, number, parts
Val(t, k, s, n, items) == [t |-> t, k |-> k, s |-> s, n |-> n, items |-> items]
Absent == Val("absent", "", "", Missing, <<>>)
Invalid == Val("invalid", "", "", Missing, <<>>)
JsonKeys ==
    {"ID", "Instance", "UnknowField", "Name", "Description", "ServerPlan", "HostName",
     "InterfaceDriver", "ConnectedSwitches", "WaitDiskMigration", "Plan",
     "SourceArchive", "SizeMB", "Connection", "Server", "PublicKey"}
NoEntity == [kind |-> "pending", id |-> Invalid, instance |-> Absent, info |-> <<>>]
EncodingParked ==
    /\ jsonPc = "idle" /\ jsonKind = "Switch" /\ jsonId = Invalid /\ jsonInfo = <<>>
    /\ jsonDoc = [key \in JsonKeys |-> Absent] /\ jsonIn = [key \in JsonKeys |-> Absent]
    /\ jsonEntity = NoEntity
CallsParked ==
    /\ ResolveParked /\ RequestParked /\ SshParked /\ RaceParked /\ PrepareParked
    /\ EncodingParked
WorkflowAside == UNCHANGED <<remote, waits, pages, calls>>

Init ==
    /\ RemoteParked /\ WaitsParked /\ PagesParked /\ CallsParked
    /\ cnt \in [Kinds -> 0..1]
    /\ deleting = {}
    /\ power \in [Powered -> {"up", "down", "unknown"}]
    /\ \A k \in Powered : cnt[k] = 0 => power[k] = "down"
    /\ avail = [k \in Staged |-> "available"]
    /\ swConn = (cnt["sw"] = 1 /\ cnt["vpc"] = 1)
    /\ srvConn = (cnt["srv"] = 1 /\ cnt["sw"] = 1)
    /\ fwStored = TRUE /\ fwActive = TRUE
    \* the two key texts are interchangeable: a key stored beforehand is "k1"
    /\ keyStored = IF cnt["key"] = 1 THEN "k1" ELSE NoKey
    /\ noteStale \in BOOLEAN /\ (noteStale => cnt["note"] = 1)
    /\ cmd = "none" /\ pc = "done" /\ pubkey = NoKey /\ found = {}
    /\ guard = FALSE /\ outcome = "ok"
    /\ runs = 0 /\ faults = 0 /\ faultAt = "none"
    /\ log = <<>> /\ sawNone = {}
    /\ prev = [cmd |-> "none", outcome |-> "ok", key |-> NoKey, faultAt |-> "none"]
    /\ startCnt = cnt

\* ------------------------------------------------------- provider's own steps

\* an accepted delete completes: the resource is gone for every later request
ProviderFinishDelete ==
    \E k \in deleting :
        /\ cnt' = [cnt EXCEPT ![k] = cnt[k] - 1]
        /\ deleting' = deleting \ {k}
        /\ swConn' = IF k \in {"vpc", "sw"} THEN FALSE ELSE swConn
        /\ srvConn' = IF k \in {"sw", "srv"} THEN FALSE ELSE srvConn
        /\ power' = IF k \in Powered THEN [power EXCEPT ![k] = "down"] ELSE power
        /\ UNCHANGED <<avail, fwStored, fwActive, keyStored, noteStale>>
        /\ UNCHANGED <<local, hist>>

\* a copy/migration completes
ProviderMigrated ==
    \E k \in Staged :
        /\ avail[k] = "migrating"
        /\ avail' = [avail EXCEPT ![k] = "available"]
        /\ UNCHANGED <<cnt, deleting, power, swConn, srvConn, fwStored, fwActive,
                       keyStored, noteStale>>
        /\ UNCHANGED <<local, hist>>

\* a shutdown completes, or the instance record of a resource appears
ProviderPowerSettled ==
    \E k \in Powered :
        /\ \/ power[k] = "cleaning" /\ power' = [power EXCEPT ![k] = "down"]
           \/ power[k] = "unknown" /\ \E s \in {"up", "down"} : power' = [power EXCEPT ![k] = s]
        /\ UNCHANGED <<cnt, deleting, avail, swConn, srvConn, fwStored, fwActive,
                       keyStored, noteStale>>
        /\ UNCHANGED <<local, hist>>

\* --------------------------------------------------- the shape of one step

\* the run goes on at position p
Goto(p) == pc' = p /\ UNCHANGED <<cmd, pubkey, found, guard, outcome>>

\* `?` on an Err: run() returns e; a live FirewallGuard is dropped first
Abort(e) ==
    /\ outcome' = e
    /\ pc' = IF guard THEN "g_update" ELSE "done"
    /\ UNCHANGED <<cmd, pubkey, found, guard>>

Quiet == UNCHANGED hist
Logged(e) ==
    /\ log' = Append(log, e)
    /\ UNCHANGED <<runs, faults, faultAt, sawNone, prev, startCnt>>

\* the request fails (transport error or error status): nothing changes at the provider
Fault(e) ==
    /\ faults < MaxFaults
    /\ faults' = faults + 1 /\ faultAt' = pc
    /\ Abort(e)
    /\ UNCHANGED <<runs, log, sawNone, prev, startCnt>>
    /\ UNCHANGED provider

\* a request by id for a resource that is gone is answered 404
NotFound(k) == ~Exists(k) /\ Abort("ApiNotFound") /\ Quiet /\ UNCHANGED provider

\* <Equipment>::try_get in Update: get_by_name -> search_single_resource
TryGet(k, here, some, none) ==
    /\ pc = here
    /\ \/ Fault("ApiError")
       \/ /\ UNCHANGED provider
          /\ LET r == search_single_resource(cnt[k]) IN
               CASE r = "Some" -> Goto(some) /\ Quiet
                 [] r = "None" -> /\ Goto(none)
                                  /\ sawNone' = sawNone \cup {k}
                                  /\ UNCHANGED <<runs, faults, faultAt, log, prev, startCnt>>
                 [] OTHER -> Abort(r) /\ Quiet

\* <Resource>::wait_available: one poll of wait_resource_status on Availability
WaitAvailable(k, here, next) ==
    /\ pc = here
    /\ \/ Fault("ApiError")
       \/ NotFound(k)
       \/ /\ Exists(k) /\ UNCHANGED provider /\ Quiet
          /\ LET r == wait_resource_available(Availability(k)) IN
               CASE r = "ok" -> Goto(next)
                 [] r = "retry" -> UNCHANGED local
                 [] OTHER -> Abort(r)

\* Appliance::is_up / Server::is_up
IsUp(k, here, yes, no) ==
    /\ pc = here
    /\ \/ Fault("ApiError")
       \/ NotFound(k)
       \/ /\ Exists(k) /\ UNCHANGED provider /\ Quiet
          /\ CASE power[k] = "unknown" -> Abort("ResourceUnknownInstanceStatus")
               [] power[k] = "up" -> Goto(yes)
               [] OTHER -> Goto(no)

\* <Resource>::up: PUT <path>/<id>/power; the provider boots a resource that is down
Up(k, here, next) ==
    /\ pc = here
    /\ \/ Fault("ApiError")
       \/ NotFound(k)
       \/ /\ Exists(k) /\ power[k] \in {"cleaning", "unknown"}
          /\ Abort("ApiConflict") /\ Quiet /\ UNCHANGED provider
       \/ /\ Exists(k) /\ power[k] \in {"up", "down"}
          /\ power' = [power EXCEPT ![k] = "up"]
          /\ UNCHANGED <<cnt, deleting, avail, swConn, srvConn, fwStored, fwActive,
                         keyStored, noteStale>>
          /\ Logged(<<"up", k>>)
          /\ Goto(next)

\* <Resource>::wait_up: one poll of wait_resource_status on Instance.Status
WaitUp(k, here, next) ==
    /\ pc = here
    /\ \/ Fault("ApiError")
       \/ NotFound(k)
       \/ /\ Exists(k) /\ UNCHANGED provider /\ Quiet
          /\ LET r == wait_resource_up(power[k]) IN
               CASE r = "ok" -> Goto(next)
                 [] r = "retry" -> UNCHANGED local
                 [] OTHER -> Abort(r)

\* <Resource>::down: DELETE <path>/<id>/power; a running resource starts to shut down
Down(k, here, next) ==
    /\ pc = here
    /\ \/ Fault("ApiError")
       \/ NotFound(k)
       \/ /\ Exists(k)
          /\ power' = [power EXCEPT ![k] = IF power[k] = "up" THEN "cleaning" ELSE power[k]]
          /\ UNCHANGED <<cnt, deleting, avail, swConn, srvConn, fwStored, fwActive,
                         keyStored, noteStale>>
          /\ Logged(<<"down", k>>)
          /\ Goto(next)

\* <Resource>::wait_down: one poll of wait_resource_status on Instance.Status
WaitDown(k, here, next) ==
    /\ pc = here
    /\ \/ Fault("ApiError")
       \/ NotFound(k)
       \/ /\ Exists(k) /\ UNCHANGED provider /\ Quiet
          /\ LET r == wait_resource_down(power[k]) IN
               CASE r = "ok" -> Goto(next)
                 [] r = "retry" -> UNCHANGED local
                 [] OTHER -> Abort(r)

\* <Resource>::create in Update: POST <path>; the new resource bears the equipment name
Created(k) == cnt' = [cnt EXCEPT ![k] = cnt[k] + 1]

\* what a later run's history keeps of the run that just ended
Summary ==
    [cmd |-> cmd,
     outcome |-> IF outcome = "ok" THEN "ok" ELSE "failed",
     key |-> pubkey,
     faultAt |-> IF faultAt \in {"none", "u_sw_connect"} THEN faultAt ELSE "other"]

\* ------------------------------------------------------------ UpdateCmd::run

StartUpdate ==
    /\ pc = "done" /\ runs < MaxRuns
    /\ \E key \in Keys : pubkey' = key
    /\ cmd' = "update" /\ pc' = "u_read_key"
    /\ found' = {} /\ guard' = FALSE /\ outcome' = "running"
    /\ runs' = runs + 1 /\ faultAt' = "none" /\ log' = <<>> /\ sawNone' = {}
    /\ prev' = Summary
    /\ startCnt' = cnt
    /\ UNCHANGED faults
    /\ UNCHANGED provider

\* a key file that cannot be read leaves the run without a key
UpdReadKey_Optional ==
    /\ pc = "u_read_key"
    /\ \/ Fault("PrimarySshPublicKeyGivenButCouldntRead")
       \/ Goto("u_vpc_get") /\ Quiet /\ UNCHANGED provider
       \/ /\ pc' = "u_vpc_get" /\ pubkey' = NoKey
          /\ UNCHANGED <<cmd, found, guard, outcome>>
          /\ Quiet /\ UNCHANGED provider

\* fs::read_to_string(&ssh_public_key_path)
UpdReadKey ==
    /\ pc = "u_read_key"
    /\ \/ Fault("PrimarySshPublicKeyGivenButCouldntRead")
       \/ Goto("u_vpc_get") /\ Quiet /\ UNCHANGED provider

UpdVpcGet == TryGet("vpc", "u_vpc_get", "u_vpc_wait", "u_vpc_create")

UpdVpcCreate ==
    /\ pc = "u_vpc_create"
    /\ \/ Fault("ApiError")
       \/ /\ Created("vpc")
          /\ avail' = [avail EXCEPT !["vpc"] = "migrating"]
          /\ power' = [power EXCEPT !["vpc"] = "down"]
          /\ fwStored' = FALSE /\ fwActive' = FALSE
          /\ UNCHANGED <<deleting, swConn, srvConn, keyStored, noteStale>>
          /\ Logged(<<"create", "vpc">>)
          /\ Goto("u_vpc_wait")

UpdVpcWait == WaitAvailable("vpc", "u_vpc_wait", "u_sw_get")

\* a switch that already exists is connected without a check
UpdSwitchGet_Connect == TryGet("sw", "u_sw_get", "u_sw_connect", "u_sw_create")
UpdSwitchGet == TryGet("sw", "u_sw_get", "u_sw_check", "u_sw_create")

\* an unconnected switch is connected instead of refused
UpdSwitchCheck_Rewire ==
    /\ pc = "u_sw_check"
    /\ \/ Fault("ApiError")
       \/ NotFound("sw")
       \/ /\ Exists("sw") /\ UNCHANGED provider /\ Quiet
          /\ IF swConn THEN Goto("u_vpc_isup") ELSE Goto("u_sw_connect")

\* Appliance::is_connected_to_switch on a switch that already existed
UpdSwitchCheck ==
    /\ pc = "u_sw_check"
    /\ \/ Fault("ApiError")
       \/ NotFound("sw")
       \/ /\ Exists("sw") /\ UNCHANGED provider
          /\ IF swConn
               THEN Goto("u_vpc_isup") /\ Quiet
               ELSE /\ Abort("PrimarySwitchNotConnectedToVpcRouter")
                    /\ Logged(<<"unconnected", "sw">>)

UpdSwitchCreate ==
    /\ pc = "u_sw_create"
    /\ \/ Fault("ApiError")
       \/ /\ Created("sw")
          /\ UNCHANGED <<deleting, power, avail, swConn, srvConn, fwStored, fwActive,
                         keyStored, noteStale>>
          /\ Logged(<<"create", "sw">>)
          /\ Goto("u_sw_connect")

\* Appliance::connect_to_switch: PUT appliance/<id>/interface/1/to/switch/<id>
UpdSwitchConnect ==
    /\ pc = "u_sw_connect"
    /\ \/ Fault("ApiError")
       \/ NotFound("vpc")
       \/ /\ Exists("vpc")
          /\ swConn' = TRUE
          /\ UNCHANGED <<cnt, deleting, power, avail, srvConn, fwStored, fwActive,
                         keyStored, noteStale>>
          /\ Logged(<<"connect", "sw">>)
          /\ Goto("u_vpc_isup")

UpdVpcIsUp == IsUp("vpc", "u_vpc_isup", "u_vpc_wait2", "u_vpc_up")
UpdVpcUp == Up("vpc", "u_vpc_up", "u_vpc_waitup")
UpdVpcWaitUp == WaitUp("vpc", "u_vpc_waitup", "u_vpc_wait2")
UpdVpcWait2 == WaitAvailable("vpc", "u_vpc_wait2", "u_fw_off")

\* PrimaryVpcRouter::update_config(id, firewall_enabled): PUT appliance/<id>
update_config(firewall_enabled, next) ==
    /\ Exists("vpc")
    /\ fwStored' = firewall_enabled
    /\ UNCHANGED <<cnt, deleting, power, avail, swConn, srvConn, fwActive,
                   keyStored, noteStale>>
    /\ Logged(<<"update_config", IF firewall_enabled THEN "on" ELSE "off">>)
    /\ pc' = next

\* Appliance::apply_config: PUT appliance/<id>/config
apply_config(next) ==
    /\ Exists("vpc")
    /\ fwActive' = fwStored
    /\ UNCHANGED <<cnt, deleting, power, avail, swConn, srvConn, fwStored,
                   keyStored, noteStale>>
    /\ Logged(<<"apply_config", IF fwStored THEN "on" ELSE "off">>)
    /\ pc' = next

UpdFirewallOff ==
    /\ pc = "u_fw_off"
    /\ \/ Fault("ApiError")
       \/ NotFound("vpc")
       \/ update_config(FALSE, "u_fw_apply") /\ UNCHANGED <<cmd, pubkey, found, guard, outcome>>

\* apply_config, then `let _firewall_guard = FirewallGuard(..)`
UpdFirewallApply ==
    /\ pc = "u_fw_apply"
    /\ \/ Fault("ApiError")
       \/ NotFound("vpc")
       \/ /\ apply_config("u_vpc_wait3")
          /\ guard' = TRUE
          /\ UNCHANGED <<cmd, pubkey, found, outcome>>

UpdVpcWait3 == WaitAvailable("vpc", "u_vpc_wait3", "u_srv_get")

UpdServerGet == TryGet("srv", "u_srv_get", "u_srv_check", "u_srv_create")

\* Server::is_connected_to_switch on a server that already existed
UpdServerCheck ==
    /\ pc = "u_srv_check"
    /\ \/ Fault("ApiError")
       \/ NotFound("sw")
       \/ /\ Exists("sw") /\ UNCHANGED provider
          /\ IF srvConn
               THEN Goto("u_disk_get") /\ Quiet
               ELSE /\ Abort("PrimaryServerNotConnectedToSwitch")
                    /\ Logged(<<"unconnected", "srv">>)

\* PrimaryServer::create(prefix, switch.id()): connected_switch_ids holds the switch
UpdServerCreate ==
    /\ pc = "u_srv_create"
    /\ \/ Fault("ApiError")
       \/ NotFound("sw")
       \/ /\ Exists("sw")
          /\ Created("srv")
          /\ srvConn' = TRUE
          /\ power' = [power EXCEPT !["srv"] = "down"]
          /\ UNCHANGED <<deleting, avail, swConn, fwStored, fwActive, keyStored, noteStale>>
          /\ Logged(<<"create", "srv">>)
          /\ Goto("u_disk_get")

\* the disk is created without looking it up
UpdDiskGet_NoLookup ==
    /\ pc = "u_disk_get"
    /\ Goto("u_note_get") /\ Quiet /\ UNCHANGED provider

UpdDiskGet == TryGet("disk", "u_disk_get", "u_disk_wait", "u_note_get")

UpdNoteGet == TryGet("note", "u_note_get", "u_note_sync", "u_note_create")

\* the note is rewritten whether or not its content differs
UpdNoteSync_Always ==
    /\ pc = "u_note_sync"
    /\ \/ Fault("ApiError")
       \/ NotFound("note")
       \/ /\ Exists("note")
          /\ noteStale' = FALSE
          /\ UNCHANGED <<cnt, deleting, power, avail, swConn, srvConn,
                         fwStored, fwActive, keyStored>>
          /\ Logged(<<"update", "note">>)
          /\ Goto("u_note_wait")

\* PrimaryServerSetupShellNote::update_content_if_needed: Note::get, then
\* Note::update only when the content differs
UpdNoteSync ==
    /\ pc = "u_note_sync"
    /\ \/ Fault("ApiError")
       \/ NotFound("note")
       \/ /\ Exists("note")
          /\ IF noteStale
               THEN /\ noteStale' = FALSE
                    /\ UNCHANGED <<cnt, deleting, power, avail, swConn, srvConn,
                                   fwStored, fwActive, keyStored>>
                    /\ Logged(<<"update", "note">>)
               ELSE UNCHANGED provider /\ Quiet
          /\ Goto("u_note_wait")

UpdNoteCreate ==
    /\ pc = "u_note_create"
    /\ \/ Fault("ApiError")
       \/ /\ Created("note")
          /\ noteStale' = FALSE
          /\ UNCHANGED <<deleting, power, avail, swConn, srvConn, fwStored, fwActive,
                         keyStored>>
          /\ Logged(<<"create", "note">>)
          /\ Goto("u_note_wait")

UpdNoteWait == WaitAvailable("note", "u_note_wait", "u_key_get")

\* an existing key is used without comparing it
UpdKeyGet_NoCompare ==
    /\ pc = "u_key_get"
    /\ \/ Fault("ApiError")
       \/ /\ UNCHANGED provider
          /\ LET r == search_single_resource(cnt["key"]) IN
               CASE r = "Some" -> Goto("u_archive") /\ Quiet
                 [] r = "None" ->
                      IF pubkey = NoKey
                        THEN Abort("PrimarySshPublicKeyNotGivenForNewServerDisk") /\ Quiet
                        ELSE /\ Goto("u_key_create")
                             /\ sawNone' = sawNone \cup {"key"}
                             /\ UNCHANGED <<runs, faults, faultAt, log, prev, startCnt>>
                 [] OTHER -> Abort(r) /\ Quiet

\* PrimaryServerSshPublicKey::try_get and the comparison with the supplied key
UpdKeyGet ==
    /\ pc = "u_key_get"
    /\ \/ Fault("ApiError")
       \/ /\ UNCHANGED provider
          /\ LET r == search_single_resource(cnt["key"]) IN
               CASE r = "Some" ->
                      IF keyStored # pubkey
                        THEN /\ Abort("PrimarySshPublicKeyAlreadyRegisteredButMismatch")
                             /\ Logged(<<"mismatch", "key">>)
                        ELSE Goto("u_archive") /\ Quiet
                 [] r = "None" ->
                      IF pubkey = NoKey
                        THEN Abort("PrimarySshPublicKeyNotGivenForNewServerDisk") /\ Quiet
                        ELSE /\ Goto("u_key_create")
                             /\ sawNone' = sawNone \cup {"key"}
                             /\ UNCHANGED <<runs, faults, faultAt, log, prev, startCnt>>
                 [] OTHER -> Abort(r) /\ Quiet

UpdKeyCreate ==
    /\ pc = "u_key_create"
    /\ \/ Fault("ApiError")
       \/ /\ Created("key")
          /\ keyStored' = pubkey
          /\ UNCHANGED <<deleting, power, avail, swConn, srvConn, fwStored, fwActive,
                         noteStale>>
          /\ Logged(<<"create", "key">>)
          /\ Goto("u_archive")

\* Archive::latest_public_ubuntu: a search by tags
UpdArchive ==
    /\ pc = "u_archive"
    /\ \/ Fault("ApiError")
       \/ Goto("u_disk_create") /\ Quiet /\ UNCHANGED provider

\* PrimaryServerDisk::create_for_server: the disk is copied from the archive
UpdDiskCreate ==
    /\ pc = "u_disk_create"
    /\ \/ Fault("ApiError")
       \/ NotFound("srv")
       \/ /\ Exists("srv")
          /\ Created("disk")
          /\ avail' = [avail EXCEPT !["disk"] = "migrating"]
          /\ UNCHANGED <<deleting, power, swConn, srvConn, fwStored, fwActive,
                         keyStored, noteStale>>
          /\ Logged(<<"create", "disk">>)
          /\ Goto("u_disk_wait")

UpdDiskWait == WaitAvailable("disk", "u_disk_wait", "u_srv_wait")
UpdServerWait == WaitAvailable("srv", "u_srv_wait", "u_srv_isup")
UpdServerIsUp == IsUp("srv", "u_srv_isup", "u_vpc_get2", "u_srv_up")
UpdServerUp == Up("srv", "u_srv_up", "u_srv_waitup")
UpdServerWaitUp == WaitUp("srv", "u_srv_waitup", "u_vpc_get2")

\* the second PrimaryVpcRouter::try_get, for public_shared_ip
UpdVpcGet2 ==
    /\ pc = "u_vpc_get2"
    /\ \/ Fault("ApiError")
       \/ /\ UNCHANGED provider /\ Quiet
          /\ LET r == search_single_resource(cnt["vpc"]) IN
               CASE r = "Some" -> Goto("u_prepare")
                 [] r = "None" -> Abort("PrimaryVpcRouterNotExists")
                 [] OTHER -> Abort(r)

\* the server answers on the router's forwarded port only when the whole
\* topology stands: router and server up, both connected to the switch, a disk
Reachable ==
    /\ \A k \in {"vpc", "sw", "srv", "disk"} : cnt[k] = 1 /\ k \notin deleting
    /\ power["vpc"] = "up" /\ power["srv"] = "up"
    /\ swConn /\ srvConn

\* ServiceScript::prepare_for_server: Session::connect, upload, sentinel files
UpdPrepare ==
    /\ pc = "u_prepare"
    /\ \/ Fault("SshError")
       \/ ~Reachable /\ Abort("SshError") /\ Quiet /\ UNCHANGED provider
       \/ Reachable /\ Goto("u_srv_down") /\ Logged(<<"prepare", "srv">>) /\ UNCHANGED provider

UpdServerDown == Down("srv", "u_srv_down", "u_srv_waitdown")
\* the run goes on to wait_for_done as soon as the server is down
UpdServerWaitDown_Skip == WaitDown("srv", "u_srv_waitdown", "u_wait_done")
UpdServerWaitDown == WaitDown("srv", "u_srv_waitdown", "u_srv_up2")
UpdServerUp2 == Up("srv", "u_srv_up2", "u_srv_waitup2")
UpdServerWaitUp2 == WaitUp("srv", "u_srv_waitup2", "u_wait_done")

\* ServiceScript::wait_for_done, then Ok(()): the guard is dropped on return
UpdWaitDone ==
    /\ pc = "u_wait_done"
    /\ \/ Fault("ServiceScriptError")
       \/ ~Reachable /\ Abort("SshError") /\ Quiet /\ UNCHANGED provider
       \/ Reachable /\ Abort("ok") /\ Quiet /\ UNCHANGED provider

\* ------------------------------------------------- FirewallGuard::drop
\* every .expect() of the guard's thread panics on an Err; the join's expect
\* passes the panic on, so the run ends without a return value
Panic ==
    /\ outcome' = "panic" /\ pc' = "done" /\ guard' = FALSE
    /\ UNCHANGED <<cmd, pubkey, found>>

GuardFault ==
    /\ faults < MaxFaults
    /\ faults' = faults + 1 /\ faultAt' = pc
    /\ Panic
    /\ UNCHANGED <<runs, log, sawNone, prev, startCnt>>
    /\ UNCHANGED provider

GuardGone == ~Exists("vpc") /\ Panic /\ Quiet /\ UNCHANGED provider

GuardUpdateConfig ==
    /\ pc = "g_update"
    /\ \/ GuardFault
       \/ GuardGone
       \/ update_config(TRUE, "g_apply") /\ UNCHANGED <<cmd, pubkey, found, guard, outcome>>

GuardApplyConfig ==
    /\ pc = "g_apply"
    /\ \/ GuardFault
       \/ GuardGone
       \/ apply_config("g_wait") /\ UNCHANGED <<cmd, pubkey, found, guard, outcome>>

GuardWaitAvailable ==
    /\ pc = "g_wait"
    /\ \/ GuardFault
       \/ GuardGone
       \/ /\ Exists("vpc") /\ UNCHANGED provider
          /\ LET r == wait_resource_available(Availability("vpc")) IN
               CASE r = "ok" -> /\ pc' = "done" /\ guard' = FALSE
                                /\ UNCHANGED <<cmd, pubkey, found, outcome>>
                                /\ Logged(<<"ensured", "vpc">>)
                 [] r = "retry" -> UNCHANGED local /\ Quiet
                 [] OTHER -> Panic /\ Quiet

\* -------------------------------------------------------------- CleanCmd::run

\* the answer to the prompt is read and the run goes on whatever it is
StartClean_Ignored ==
    /\ pc = "done" /\ runs < MaxRuns
    /\ \E confirmed \in BOOLEAN :
         /\ pc' = "c_vpc_get"
         /\ outcome' = "running"
         /\ log' = IF confirmed THEN <<>> ELSE << <<"declined", "clean">> >>
    /\ cmd' = "clean" /\ pubkey' = NoKey
    /\ found' = {} /\ guard' = FALSE
    /\ runs' = runs + 1 /\ faultAt' = "none" /\ sawNone' = {}
    /\ prev' = Summary
    /\ startCnt' = cnt
    /\ UNCHANGED faults
    /\ UNCHANGED provider

\* the prompt: without --force the prefix must be typed again
StartClean ==
    /\ pc = "done" /\ runs < MaxRuns
    /\ \E confirmed \in BOOLEAN :
         /\ pc' = IF confirmed THEN "c_vpc_get" ELSE "done"
         /\ outcome' = IF confirmed THEN "running" ELSE "ok"
         /\ log' = IF confirmed THEN <<>> ELSE << <<"declined", "clean">> >>
    /\ cmd' = "clean" /\ pubkey' = NoKey
    /\ found' = {} /\ guard' = FALSE
    /\ runs' = runs + 1 /\ faultAt' = "none" /\ sawNone' = {}
    /\ prev' = Summary
    /\ startCnt' = cnt
    /\ UNCHANGED faults
    /\ UNCHANGED provider

\* <Equipment>::try_get in Clean: the Option is kept for the later steps
CleanGet(k, here, next) ==
    /\ pc = here
    /\ \/ Fault("ApiError")
       \/ /\ UNCHANGED provider /\ Quiet
          /\ LET r == search_single_resource(cnt[k]) IN
               CASE r = "Some" -> /\ found' = found \cup {k} /\ pc' = next
                                  /\ UNCHANGED <<cmd, pubkey, guard, outcome>>
                 [] r = "None" -> Goto(next)
                 [] OTHER -> Abort(r)

CleanVpcGet == CleanGet("vpc", "c_vpc_get", "c_sw_get")
CleanSwitchGet == CleanGet("sw", "c_sw_get", "c_srv_get")
CleanServerGet == CleanGet("srv", "c_srv_get", "c_disk_get")
CleanDiskGet == CleanGet("disk", "c_disk_get", "c_vpc_poll")

\* any reported status ends the loop
CleanPoll_AnyStatus(k, here, next) ==
    /\ pc = here
    /\ IF k \notin found
         THEN Goto(next) /\ Quiet /\ UNCHANGED provider
         ELSE \/ Fault("ApiError")
              \/ NotFound(k)
              \/ /\ Exists(k) /\ UNCHANGED provider
                 /\ IF power[k] \in {"up", "down"}
                      THEN Goto(next) /\ Logged(<<"stable", k>>)
                      ELSE IF power[k] = "cleaning"
                             THEN Goto(next) /\ Quiet
                             ELSE UNCHANGED local /\ Quiet

\* the instance status check: loop { match <Resource>::instance_status(id) }
CleanPoll(k, here, next) ==
    /\ pc = here
    /\ IF k \notin found
         THEN Goto(next) /\ Quiet /\ UNCHANGED provider
         ELSE \/ Fault("ApiError")
              \/ NotFound(k)
              \/ /\ Exists(k) /\ UNCHANGED provider
                 /\ IF power[k] \in {"up", "down"}
                      THEN Goto(next) /\ Logged(<<"stable", k>>)
                      ELSE UNCHANGED local /\ Quiet

CleanVpcPoll == CleanPoll("vpc", "c_vpc_poll", "c_srv_poll")
CleanServerPoll == CleanPoll("srv", "c_srv_poll", "c_vpc_isup")

\* `if let Some(x) = x { if <Resource>::is_up(..) { .. } .. }`
CleanIsUp(k, here, yes, no, skip) ==
    /\ pc = here
    /\ IF k \notin found
         THEN Goto(skip) /\ Quiet /\ UNCHANGED provider
         ELSE IsUp(k, here, yes, no)

\* <Resource>::delete: DELETE <path>/<id>; the provider accepts and deletes later
Delete(k, here, next) ==
    /\ pc = here
    /\ \/ Fault("ApiError")
       \/ NotFound(k)
       \/ /\ Exists(k)
          /\ deleting' = deleting \cup {k}
          /\ UNCHANGED <<cnt, power, avail, swConn, srvConn, fwStored, fwActive,
                         keyStored, noteStale>>
          /\ Logged(<<"delete", k>>)
          /\ Goto(next)

\* <Resource>::wait_delete: one poll of fetch_until_not_found
WaitDelete(k, here, next) ==
    /\ pc = here
    /\ UNCHANGED provider
    /\ \/ Fault("ApiError")
       \/ Exists(k) /\ UNCHANGED local /\ Quiet
       \/ ~Exists(k) /\ Goto(next) /\ Logged(<<"gone", k>>)

\* the last statement of run(): Ok(())
Return(here) ==
    /\ pc = here
    /\ outcome' = "ok" /\ pc' = "done"
    /\ UNCHANGED <<cmd, pubkey, found, guard>>
    /\ Quiet /\ UNCHANGED provider

CleanVpcIsUp == CleanIsUp("vpc", "c_vpc_isup", "c_vpc_down", "c_vpc_delete", "c_srv_isup")
CleanVpcDown == Down("vpc", "c_vpc_down", "c_vpc_waitdown")
CleanVpcWaitDown == WaitDown("vpc", "c_vpc_waitdown", "c_vpc_delete")
CleanVpcDelete == Delete("vpc", "c_vpc_delete", "c_vpc_waitdelete")
\* the disk is deleted right after the router
CleanVpcWaitDelete_ThenDisk == WaitDelete("vpc", "c_vpc_waitdelete", "c_disk_delete")
CleanVpcWaitDelete == WaitDelete("vpc", "c_vpc_waitdelete", "c_srv_isup")

CleanServerIsUp == CleanIsUp("srv", "c_srv_isup", "c_srv_down", "c_srv_delete", "c_disk_delete")
CleanServerDown == Down("srv", "c_srv_down", "c_srv_waitdown")
CleanServerWaitDown == WaitDown("srv", "c_srv_waitdown", "c_srv_delete")
CleanServerDelete == Delete("srv", "c_srv_delete", "c_srv_waitdelete")
\* the server's delete is not waited for
CleanServerWaitDelete_Skip ==
    /\ pc = "c_srv_waitdelete"
    /\ Goto("c_disk_delete") /\ Quiet /\ UNCHANGED provider
CleanServerWaitDelete == WaitDelete("srv", "c_srv_waitdelete", "c_disk_delete")

\* the disk is left behind
CleanDiskDelete_Keep ==
    pc = "c_disk_delete" /\ Goto("c_sw_delete") /\ Quiet /\ UNCHANGED provider
CleanDiskDelete ==
    IF "disk" \in found
      THEN Delete("disk", "c_disk_delete", "c_disk_waitdelete")
      ELSE pc = "c_disk_delete" /\ Goto("c_sw_delete") /\ Quiet /\ UNCHANGED provider
CleanDiskWaitDelete == WaitDelete("disk", "c_disk_waitdelete", "c_sw_delete")

CleanSwitchDelete ==
    IF "sw" \in found
      THEN Delete("sw", "c_sw_delete", "c_sw_waitdelete")
      ELSE pc = "c_sw_delete" /\ Goto("c_return") /\ Quiet /\ UNCHANGED provider
CleanSwitchWaitDelete == WaitDelete("sw", "c_sw_waitdelete", "c_return")

CleanReturn == Return("c_return")

\* ---------------------------------------------------------------- Next
Provider ==
    \/ ProviderFinishDelete /\ WorkflowAside
    \/ ProviderMigrated /\ WorkflowAside
    \/ ProviderPowerSettled /\ WorkflowAside

Update ==
    \/ StartUpdate /\ WorkflowAside
    \/ UpdReadKey /\ WorkflowAside
    \/ UpdVpcGet /\ WorkflowAside
    \/ UpdVpcCreate /\ WorkflowAside
    \/ UpdVpcWait /\ WorkflowAside
    \/ UpdSwitchGet /\ WorkflowAside
    \/ UpdSwitchCheck /\ WorkflowAside
    \/ UpdSwitchCreate /\ WorkflowAside
    \/ UpdSwitchConnect /\ WorkflowAside
    \/ UpdVpcIsUp /\ WorkflowAside
    \/ UpdVpcUp /\ WorkflowAside
    \/ UpdVpcWaitUp /\ WorkflowAside
    \/ UpdVpcWait2 /\ WorkflowAside
    \/ UpdFirewallOff /\ WorkflowAside
    \/ UpdFirewallApply /\ WorkflowAside
    \/ UpdVpcWait3 /\ WorkflowAside
    \/ UpdServerGet /\ WorkflowAside
    \/ UpdServerCheck /\ WorkflowAside
    \/ UpdServerCreate /\ WorkflowAside
    \/ UpdDiskGet /\ WorkflowAside
    \/ UpdNoteGet /\ WorkflowAside
    \/ UpdNoteSync /\ WorkflowAside
    \/ UpdNoteCreate /\ WorkflowAside
    \/ UpdNoteWait /\ WorkflowAside
    \/ UpdKeyGet /\ WorkflowAside
    \/ UpdKeyCreate /\ WorkflowAside
    \/ UpdArchive /\ WorkflowAside
    \/ UpdDiskCreate /\ WorkflowAside
    \/ UpdDiskWait /\ WorkflowAside
    \/ UpdServerWait /\ WorkflowAside
    \/ UpdServerIsUp /\ WorkflowAside
    \/ UpdServerUp /\ WorkflowAside
    \/ UpdServerWaitUp /\ WorkflowAside
    \/ UpdVpcGet2 /\ WorkflowAside
    \/ UpdPrepare /\ WorkflowAside
    \/ UpdServerDown /\ WorkflowAside
    \/ UpdServerWaitDown /\ WorkflowAside
    \/ UpdServerUp2 /\ WorkflowAside
    \/ UpdServerWaitUp2 /\ WorkflowAside
    \/ UpdWaitDone /\ WorkflowAside
    \/ GuardUpdateConfig /\ WorkflowAside
    \/ GuardApplyConfig /\ WorkflowAside
    \/ GuardWaitAvailable /\ WorkflowAside

Clean ==
    \/ StartClean /\ WorkflowAside
    \/ CleanVpcGet /\ WorkflowAside
    \/ CleanSwitchGet /\ WorkflowAside
    \/ CleanServerGet /\ WorkflowAside
    \/ CleanDiskGet /\ WorkflowAside
    \/ CleanVpcPoll /\ WorkflowAside
    \/ CleanServerPoll /\ WorkflowAside
    \/ CleanVpcIsUp /\ WorkflowAside
    \/ CleanVpcDown /\ WorkflowAside
    \/ CleanVpcWaitDown /\ WorkflowAside
    \/ CleanVpcDelete /\ WorkflowAside
    \/ CleanVpcWaitDelete /\ WorkflowAside
    \/ CleanServerIsUp /\ WorkflowAside
    \/ CleanServerDown /\ WorkflowAside
    \/ CleanServerWaitDown /\ WorkflowAside
    \/ CleanServerDelete /\ WorkflowAside
    \/ CleanServerWaitDelete /\ WorkflowAside
    \/ CleanDiskDelete /\ WorkflowAside
    \/ CleanDiskWaitDelete /\ WorkflowAside
    \/ CleanSwitchDelete /\ WorkflowAside
    \/ CleanSwitchWaitDelete /\ WorkflowAside
    \/ CleanReturn /\ WorkflowAside

Next == Provider \/ Update \/ Clean

Spec == Init /\ [][Next]_vars

\* ================================================================ properties

Has(e) == \E i \in 1..Len(log) : log[i] = e
Count(e) == Cardinality({i \in 1..Len(log) : log[i] = e})
Ops(o) == {i \in 1..Len(log) : log[i][1] = o}
IsDelete(e) == e[1] = "delete"
IsDestructive(e) == e[1] \in {"down", "delete"}
Deletes == SelectSeq(log, IsDelete)
Destructive == SelectSeq(log, IsDestructive)
Targets(s) == [i \in 1..Len(s) |-> s[i][2]]
IsPrefix(s, t) == Len(s) <= Len(t) /\ \A i \in 1..Len(s) : s[i] = t[i]
AllFour == {"vpc", "sw", "srv", "disk"}
GuardCalls == {"update_config", "apply_config", "ensured"}
Finished == pc = "done"
Confirmed == ~Has(<<"declined", "clean">>)

\* the re-enable sequence of the guard ran to its end
Reenabled ==
    \E i \in 1..(Len(log) - 2) :
        /\ log[i] = <<"update_config", "on">>
        /\ log[i + 1] = <<"apply_config", "on">>
        /\ log[i + 2] = <<"ensured", "vpc">>

\* C1: once update_config(false) was issued, every finished Update run has
\* executed the re-enable sequence (update_config(true), apply_config,
\* wait_available) exactly once, whatever the exit path.
C1_FirewallReenabledOnEveryExit ==
    (cmd = "update" /\ Finished /\ Has(<<"update_config", "off">>))
        => (Reenabled /\ Count(<<"update_config", "on">>) = 1)

\* C2: an Update run that follows a successful Update run with the same key
\* issues no create request and leaves the set of named resources as it was.
SecondUpdate ==
    cmd = "update" /\ prev.cmd = "update" /\ prev.outcome = "ok" /\ prev.key = pubkey
C2_SecondUpdateCreatesNothing ==
    SecondUpdate => (Ops("create") = {} /\ cnt = startCnt)
C2_Witness == SecondUpdate /\ Finished /\ outcome = "ok"

\* C3: an Update run re-invoked with the same key after a run that aborted
\* between the switch's create and connect_to_switch, and meeting no failure
\* itself, completes successfully.
C3_FailedUpdateIsResumable ==
    (cmd = "update" /\ Finished /\ faultAt = "none"
        /\ prev.cmd = "update" /\ prev.faultAt = "u_sw_connect" /\ prev.key = pubkey)
        => outcome = "ok"

\* C4: when the connectivity check finds the existing switch not connected to
\* the router, the run ends at once with PrimarySwitchNotConnectedToVpcRouter
\* and no mutating request follows the check.
C4_Observed ==
    Has(<<"unconnected", "sw">>) =>
        /\ Finished
        /\ outcome = "PrimarySwitchNotConnectedToVpcRouter"
        /\ log[Len(log)] = <<"unconnected", "sw">>
C4_Check ==
    (cmd = "update" /\ pc = "u_sw_check" /\ Exists("sw") /\ ~swConn
        /\ pc' # pc /\ faults' = faults)
        => /\ outcome' = "PrimarySwitchNotConnectedToVpcRouter"
           /\ pc' = "done"
           /\ log' = Append(log, <<"unconnected", "sw">>)
           /\ UNCHANGED provider
C4_UnconnectedSwitchIsFatal == [](C4_Observed) /\ [][C4_Check]_vars
C4_Witness ==
    cmd = "update" /\ Finished /\ outcome = "PrimarySwitchNotConnectedToVpcRouter"
        /\ Has(<<"create", "vpc">>)

\* C5 (as claimed): whenever a key of the expected name is stored with a text
\* other than the supplied one, Update does not succeed (it fails with the
\* mismatch error unless an earlier step failed) and creates no SSH key.
KeyDiffers == keyStored \notin {NoKey, pubkey}
C5_MismatchAlwaysRejected ==
    (cmd = "update" /\ Finished /\ KeyDiffers)
        => (outcome # "ok" /\ ~Has(<<"create", "key">>))

\* C5 (amended): when the SSH key lookup of the disk step finds a stored key
\* whose text differs from the supplied one, the run takes the mismatch error
\* return there and only the firewall guard's calls follow; no run alters or
\* removes a stored key.
C5_Observed ==
    \A i \in 1..Len(log) : log[i] = <<"mismatch", "key">> =>
        /\ pc \in {"g_update", "g_apply", "g_wait", "done"}
        /\ outcome \in {"PrimarySshPublicKeyAlreadyRegisteredButMismatch", "panic"}
        /\ ~Has(<<"create", "key">>)
        /\ \A j \in (i + 1)..Len(log) : log[j][1] \in GuardCalls
C5_Lookup ==
    /\ (cmd = "update" /\ pc = "u_key_get" /\ cnt["key"] = 1 /\ keyStored # pubkey
          /\ pc' # pc /\ faults' = faults)
          => /\ outcome' = "PrimarySshPublicKeyAlreadyRegisteredButMismatch"
             /\ log' = Append(log, <<"mismatch", "key">>)
    /\ (keyStored # NoKey => keyStored' = keyStored)
    /\ cnt'["key"] >= cnt["key"]
C5_MismatchAtLookupIsFatal == [](C5_Observed) /\ [][C5_Lookup]_vars
C5_Witness ==
    /\ cmd = "update" /\ Finished /\ Has(<<"mismatch", "key">>)
    /\ outcome = "PrimarySshPublicKeyAlreadyRegisteredButMismatch"

\* C6: at most one resource per kind bears the equipment name, and every
\* create of a run follows a try_get of that equipment that returned None in
\* the same run.
C6_AtMostOnePerName ==
    /\ \A k \in Kinds : cnt[k] <= 1
    /\ \A i \in 1..Len(log) : log[i][1] = "create" => log[i][2] \in sawNone
C6_Witness ==
    /\ cmd = "update" /\ prev.cmd = "clean" /\ Finished
    /\ Has(<<"create", "vpc">>) /\ Has(<<"create", "disk">>)

\* C7: in Clean nothing follows a delete request but the observation that the
\* same resource is gone; until then the run is in that resource's
\* delete-wait or has aborted; the disk's delete comes after the server was
\* observed gone.
WaitPc(k) ==
    CASE k = "vpc" -> "c_vpc_waitdelete"
      [] k = "srv" -> "c_srv_waitdelete"
      [] k = "disk" -> "c_disk_waitdelete"
      [] k = "sw" -> "c_sw_waitdelete"
C7_DeleteThenWait ==
    cmd = "clean" =>
        /\ \A i \in 1..Len(log) : log[i][1] = "delete" =>
             IF i < Len(log)
               THEN log[i + 1] = <<"gone", log[i][2]>>
               ELSE pc = WaitPc(log[i][2]) \/ (Finished /\ outcome # "ok")
        /\ \A j \in 1..Len(log) :
             (log[j] = <<"delete", "disk">> /\ "srv" \in found)
                => \E i \in 1..(j - 1) : log[i] = <<"gone", "srv">>
C7_Witness ==
    /\ cmd = "clean" /\ Finished /\ outcome = "ok"
    /\ Has(<<"gone", "srv">>) /\ Has(<<"gone", "disk">>)

\* C8 (as claimed): with all four resources found, a completed Clean has
\* deleted the router, the switch, the server and the disk in this order.
C8_SwitchBeforeServer ==
    (cmd = "clean" /\ Finished /\ outcome = "ok" /\ found = AllFour)
        => Targets(Deletes) = <<"vpc", "sw", "srv", "disk">>

\* C8 (amended): with all four resources found, Clean deletes the router, the
\* server, the disk and the switch in this order, and a power-down is issued
\* only for the router or the server and is directly followed by its delete.
C8_SwitchLast ==
    (cmd = "clean" /\ found = AllFour) =>
        /\ IsPrefix(Targets(Deletes), <<"vpc", "srv", "disk", "sw">>)
        /\ (Finished /\ outcome = "ok" => Len(Deletes) = 4)
        /\ \A i \in 1..Len(Destructive) : Destructive[i][1] = "down" =>
             /\ Destructive[i][2] \in Powered
             /\ i < Len(Destructive) => Destructive[i + 1] = <<"delete", Destructive[i][2]>>
C8_Witness ==
    /\ cmd = "clean" /\ Finished /\ outcome = "ok" /\ found = AllFour
    /\ Has(<<"down", "vpc">>) /\ Has(<<"down", "srv">>)

\* C9 (as claimed): Update deletes nothing, no run deletes the SSH key, and
\* after a confirmed Clean run that succeeded none of the router, the switch,
\* the server, the disk and the note exists.
C9_CleanRemovesNote ==
    /\ (cmd = "update" => Ops("delete") = {})
    /\ "key" \notin deleting
    /\ (cmd = "clean" /\ Finished /\ outcome = "ok" /\ Confirmed)
          => \A k \in AllFour \cup {"note"} : cnt[k] = 0

\* C9 (amended): Update deletes nothing, no run deletes the SSH key or the
\* note, and after a confirmed Clean run that succeeded none of the router,
\* the switch, the server and the disk exists.
C9_CleanRemovesFour ==
    /\ (cmd = "update" => Ops("delete") = {})
    /\ deleting \subseteq AllFour
    /\ (cmd = "clean" /\ Finished /\ outcome = "ok" /\ Confirmed)
          => \A k \in AllFour : cnt[k] = 0
C9_Witness ==
    /\ cmd = "clean" /\ Finished /\ outcome = "ok" /\ found = AllFour
    /\ prev.cmd = "update" /\ cnt["note"] = 1 /\ cnt["key"] = 1

\* C10: in Clean every power-down and delete comes after a poll that observed
\* Up or Down for each of the router and the server that was found; a poll
\* that observes another status, or none, is repeated and changes nothing; a
\* failed poll ends the run with no destructive request issued.
PollOf(p) == IF p = "c_vpc_poll" THEN "vpc" ELSE "srv"
C10_StableFirst ==
    cmd = "clean" =>
        \A j \in 1..Len(log) : IsDestructive(log[j]) =>
            \A k \in Powered \cap found : \E i \in 1..(j - 1) : log[i] = <<"stable", k>>
C10_Poll ==
    (cmd = "clean" /\ pc \in {"c_vpc_poll", "c_srv_poll"} /\ PollOf(pc) \in found
        /\ Exists(PollOf(pc)) /\ UNCHANGED provider)
        => /\ (power[PollOf(pc)] \in {"cleaning", "unknown"} /\ faults' = faults)
                => UNCHANGED <<pc, log, outcome>>
           /\ (power[PollOf(pc)] \in {"up", "down"} /\ faults' = faults)
                => log' = Append(log, <<"stable", PollOf(pc)>>)
           /\ faults' # faults
                => (pc' = "done" /\ outcome' # "ok" /\ Destructive' = << >>)
C10_StableBeforeDestruction == [](C10_StableFirst) /\ [][C10_Poll]_vars
C10_Witness ==
    /\ cmd = "clean" /\ pc = "c_srv_poll" /\ "srv" \in found
    /\ power["srv"] = "cleaning" /\ Has(<<"stable", "vpc">>)

\* ======================================= ServiceScript::wait_for_done
\* The waiter polls the remote host over its session; the host runs the setup
\* script on its own.  Time is counted in seconds and advances only while the
\* waiter probes or sleeps.

StartTimeoutSecs == 120     \* Duration::from_secs(60 * 2)
FinishTimeoutSecs == 600    \* Duration::from_secs(60 * 10)
PollSecs == 5               \* sleep(Duration::from_secs(5))
ProbeSecs == {0, 5}         \* time one round of probes may take
Sentinels == {"not_yet_started", "not_yet_finished", "not_yet_success"}
DoneErrors == {"IllegallyStopped", "Failed", "TimeoutToStart", "TimeoutToFinish", "SshError"}

WorkflowParked ==
    /\ cnt = [k \in Kinds |-> 0] /\ deleting = {}
    /\ power = [k \in Powered |-> "down"]
    /\ avail = [k \in Staged |-> "available"]
    /\ swConn = FALSE /\ srvConn = FALSE
    /\ fwStored = TRUE /\ fwActive = TRUE
    /\ keyStored = NoKey /\ noteStale = FALSE
    /\ cmd = "none" /\ pc = "done" /\ pubkey = NoKey /\ found = {}
    /\ guard = FALSE /\ outcome = "ok"
    /\ runs = 0 /\ faults = 0 /\ faultAt = "none"
    /\ log = <<>> /\ sawNone = {}
    /\ prev = [cmd |-> "none", outcome |-> "ok", key |-> NoKey, faultAt |-> "none"]
    /\ startCnt = cnt

\* session.process_exists / session.file_exists as the host answers them
exists_process == proc = "running"
file_exists(f) == f \in sentinels

\* the decision of one finish poll, in the order the success check comes first
finish_verdict_SuccessFirst(existsProcess, started, finished, success) ==
    IF ~existsProcess /\ started
      THEN IF ~success THEN "Failed"
           ELSE IF ~finished THEN "IllegallyStopped"
           ELSE "ok"
      ELSE "waiting"

\* the decision of one finish poll that classifies whenever the process is gone
finish_verdict_GoneDecides(existsProcess, started, finished, success) ==
    IF ~existsProcess
      THEN IF ~finished THEN "IllegallyStopped"
           ELSE IF ~success THEN "Failed"
           ELSE "ok"
      ELSE "waiting"

\* the decision of one finish poll: if !exists_process && started { ... }
finish_verdict(existsProcess, started, finished, success) ==
    IF ~existsProcess /\ started
      THEN IF ~finished THEN "IllegallyStopped"
           ELSE IF ~success THEN "Failed"
           ELSE "ok"
      ELSE "waiting"

\* the remote script: launched once, it consumes the markers and exits
ScriptStart ==
    /\ phase \in {"start", "finish"} /\ proc = "pending"
    /\ proc' = "running"
    /\ UNCHANGED <<phase, elapsed, doneResult, sentinels, sawStart>>

ScriptRemove ==
    /\ phase \in {"start", "finish"} /\ proc = "running"
    /\ \E f \in sentinels : sentinels' = sentinels \ {f}
    /\ UNCHANGED <<phase, elapsed, doneResult, proc, sawStart>>

ScriptExit ==
    /\ phase \in {"start", "finish"} /\ proc = "running"
    /\ proc' = "gone"
    /\ UNCHANGED <<phase, elapsed, doneResult, sentinels, sawStart>>

\* `?` on a probe that returned Err
DoneReturn(r) ==
    /\ phase' = "returned" /\ doneResult' = r
    /\ UNCHANGED <<proc, sentinels>>

\* the first loop is left only when both signs of a start are seen
WaitStartPoll_BothSigns ==
    /\ phase = "start"
    /\ \E d \in ProbeSecs :
         \/ DoneReturn("SshError") /\ elapsed' = elapsed + d /\ UNCHANGED sawStart
         \/ LET started == ~file_exists("not_yet_started") IN
              IF exists_process /\ started
                THEN /\ phase' = "finish" /\ elapsed' = 0
                     /\ sawStart' = "process"
                     /\ UNCHANGED <<doneResult, proc, sentinels>>
                ELSE IF elapsed + d > StartTimeoutSecs
                       THEN /\ DoneReturn("TimeoutToStart")
                            /\ elapsed' = elapsed + d /\ UNCHANGED sawStart
                       ELSE /\ elapsed' = elapsed + d + PollSecs
                            /\ UNCHANGED <<phase, doneResult, proc, sentinels, sawStart>>

\* one round of the first loop
WaitStartPoll ==
    /\ phase = "start"
    /\ \E d \in ProbeSecs :
         \/ DoneReturn("SshError") /\ elapsed' = elapsed + d /\ UNCHANGED sawStart
         \/ LET started == ~file_exists("not_yet_started") IN
              IF exists_process \/ started
                THEN /\ phase' = "finish" /\ elapsed' = 0
                     /\ sawStart' = IF exists_process THEN "process" ELSE "marker"
                     /\ UNCHANGED <<doneResult, proc, sentinels>>
                ELSE IF elapsed + d > StartTimeoutSecs
                       THEN /\ DoneReturn("TimeoutToStart")
                            /\ elapsed' = elapsed + d /\ UNCHANGED sawStart
                       ELSE /\ elapsed' = elapsed + d + PollSecs
                            /\ UNCHANGED <<phase, doneResult, proc, sentinels, sawStart>>

\* the second loop gives up one poll interval too late
WaitFinishPoll_LateTimeout ==
    /\ phase = "finish"
    /\ \E d \in ProbeSecs :
         \/ DoneReturn("SshError") /\ elapsed' = elapsed + d /\ UNCHANGED sawStart
         \/ LET v == finish_verdict(exists_process,
                                    ~file_exists("not_yet_started"),
                                    ~file_exists("not_yet_finished"),
                                    ~file_exists("not_yet_success")) IN
              IF v # "waiting"
                THEN DoneReturn(v) /\ elapsed' = elapsed + d /\ UNCHANGED sawStart
                ELSE IF elapsed + d > FinishTimeoutSecs + PollSecs
                       THEN /\ DoneReturn("TimeoutToFinish")
                            /\ elapsed' = elapsed + d /\ UNCHANGED sawStart
                       ELSE /\ elapsed' = elapsed + d + PollSecs
                            /\ UNCHANGED <<phase, doneResult, proc, sentinels, sawStart>>

\* one round of the second loop
WaitFinishPoll ==
    /\ phase = "finish"
    /\ \E d \in ProbeSecs :
         \/ DoneReturn("SshError") /\ elapsed' = elapsed + d /\ UNCHANGED sawStart
         \/ LET v == finish_verdict(exists_process,
                                    ~file_exists("not_yet_started"),
                                    ~file_exists("not_yet_finished"),
                                    ~file_exists("not_yet_success")) IN
              IF v # "waiting"
                THEN DoneReturn(v) /\ elapsed' = elapsed + d /\ UNCHANGED sawStart
                ELSE IF elapsed + d > FinishTimeoutSecs
                       THEN /\ DoneReturn("TimeoutToFinish")
                            /\ elapsed' = elapsed + d /\ UNCHANGED sawStart
                       ELSE /\ elapsed' = elapsed + d + PollSecs
                            /\ UNCHANGED <<phase, doneResult, proc, sentinels, sawStart>>

\* Session::connect returned; Instant::now()
InitDone ==
    /\ WorkflowParked /\ WaitsParked /\ PagesParked /\ CallsParked
    /\ phase = "start" /\ elapsed = 0 /\ doneResult = "pending"
    /\ proc = "pending" /\ sentinels = Sentinels /\ sawStart = "none"

Waiter == WaitStartPoll \/ WaitFinishPoll
DoneAside == UNCHANGED <<workflow, waits, pages, calls>>
NextDone ==
    \/ ScriptStart /\ DoneAside
    \/ ScriptRemove /\ DoneAside
    \/ ScriptExit /\ DoneAside
    \/ WaitStartPoll /\ DoneAside
    \/ WaitFinishPoll /\ DoneAside
SpecDone == InitDone /\ [][NextDone]_vars
\* the clock advances and every probe returns
FairDone == SpecDone /\ WF_vars(Waiter /\ DoneAside)

TypeOKDone ==
    /\ phase \in {"start", "finish", "returned"}
    /\ elapsed \in 0..(FinishTimeoutSecs + 2 * PollSecs)
    /\ doneResult \in {"pending", "ok"} \cup DoneErrors
    /\ proc \in {"pending", "running", "gone"}
    /\ sentinels \subseteq Sentinels
    /\ sawStart \in {"none", "process", "marker"}

\* a step taken by the waiter, and one in which its probes returned
WaiterStep == <<phase, elapsed>>' # <<phase, elapsed>>
Probed == WaiterStep /\ doneResult' # "SshError"
Started == "not_yet_started" \notin sentinels
BySentinels ==
    IF "not_yet_finished" \in sentinels THEN "IllegallyStopped"
    ELSE IF "not_yet_success" \in sentinels THEN "Failed"
    ELSE "ok"

\* C11 (as claimed): a finish poll that finds the process gone returns the
\* outcome given by the finished and success sentinels, whatever else holds.
C11_GoneDecides ==
    [][(phase = "finish" /\ proc = "gone" /\ Probed)
          => (phase' = "returned" /\ doneResult' = BySentinels)]_vars

\* C11 (amended): a finish poll that finds the process absent and the
\* not_yet_started sentinel absent returns IllegallyStopped, Failed or success
\* as the finished and success sentinels say; a poll that finds the process
\* present, or the not_yet_started sentinel present, decides nothing.
C11_GoneAndStartedDecides ==
    [][(phase = "finish" /\ Probed) =>
          IF ~exists_process /\ Started
            THEN phase' = "returned" /\ doneResult' = BySentinels
            ELSE doneResult' \in {"pending", "TimeoutToFinish"}]_vars
C11_Witness ==
    /\ phase = "returned" /\ doneResult = "Failed"
    /\ proc = "gone" /\ sentinels = {"not_yet_success"}

\* C12: a start poll that observes the process or the removed marker ends the
\* start phase; one that observes neither after more than the start timeout
\* returns TimeoutToStart, otherwise the phase goes on; TimeoutToStart is
\* returned only with no start observed and TimeoutToFinish only with one.
C12_Results ==
    /\ doneResult = "TimeoutToStart" => (sawStart = "none" /\ elapsed > StartTimeoutSecs)
    /\ doneResult = "TimeoutToFinish" => sawStart # "none"
    /\ phase = "finish" => sawStart # "none"
    /\ sawStart = "marker" => Started
C12_Poll ==
    (phase = "start" /\ Probed) =>
        IF exists_process \/ Started
          THEN phase' = "finish" /\ doneResult' = "pending"
          ELSE \/ doneResult' = "TimeoutToStart" /\ phase' = "returned"
               \/ /\ phase' = "start" /\ doneResult' = "pending"
                  /\ elapsed' - PollSecs <= StartTimeoutSecs
C12_TimeoutsDistinct == [](C12_Results) /\ [][C12_Poll]_vars
C12_Witness ==
    phase = "returned" /\ doneResult = "TimeoutToFinish" /\ sawStart = "process"

\* C13: no poll of the start phase begins later than the start timeout plus
\* one poll interval, none of the finish phase later than the finish timeout
\* plus one poll interval, and every run returns, with success or one of the
\* five errors.
C13_Bounds ==
    /\ phase = "start" => elapsed <= StartTimeoutSecs + PollSecs
    /\ phase = "finish" => elapsed <= FinishTimeoutSecs + PollSecs
    /\ phase = "returned" <=> doneResult \in {"ok"} \cup DoneErrors
C13_Terminates == [](C13_Bounds) /\ <>(phase = "returned")
C13_Witness ==
    /\ phase = "returned" /\ doneResult = "TimeoutToFinish"
    /\ elapsed > FinishTimeoutSecs /\ proc = "running"

\* ===================================================== the wait loops of api.rs
\* One call of wait_available, wait_up, wait_down or wait_delete: every round
\* fetches the resource once; what the fetch returns is the provider's choice.

MaxPolls == 4      \* fetches of one call followed in a behaviour

StatusWaits == {"available", "up", "down"}
WaitKinds == StatusWaits \cup {"delete"}
\* "unknown": the status field is missing; "discontinued": a value of no set
Statuses == {"uploading", "migrating", "available", "failed",
             "up", "down", "cleaning", "discontinued", "unknown"}
FetchErrors == {"ApiNotFound", "ApiServiceUnavailable"}

\* the verdict of one round of wait_resource_status as the call passes its sets
status_verdict(kind, status) ==
    CASE kind = "available" -> wait_resource_available(status)
      [] kind = "up" -> wait_resource_up(status)
      [] kind = "down" -> wait_resource_down(status)

\* a successful fetch ends the wait
fetch_until_not_found_FoundEnds(response) ==
    IF response \in {"found", "ApiNotFound"} THEN "ok" ELSE response

\* the verdict of one round of fetch_until_not_found on the response
fetch_until_not_found(response) ==
    IF response = "found" THEN "retry"
    ELSE IF response = "ApiNotFound" THEN "ok"
    ELSE response

\* the end of a round: sleep and loop, or return
Round(observed, verdict) ==
    /\ seen' = Append(seen, observed)
    /\ IF verdict = "retry"
         THEN sleeps' = sleeps + 1 /\ UNCHANGED <<waitKind, waitPc, waitResult>>
         ELSE /\ waitPc' = "returned" /\ waitResult' = verdict
              /\ UNCHANGED <<waitKind, sleeps>>

\* the loop sleeps before it fetches
StatusRound_SleepFirst ==
    /\ waitKind \in StatusWaits /\ waitPc = "polling" /\ Len(seen) < MaxPolls
    /\ \/ \E e \in FetchErrors :
            /\ seen' = Append(seen, e) /\ sleeps' = sleeps + 1
            /\ waitPc' = "returned" /\ waitResult' = e /\ UNCHANGED waitKind
       \/ \E st \in Statuses :
            /\ seen' = Append(seen, st) /\ sleeps' = sleeps + 1
            /\ IF status_verdict(waitKind, st) = "retry"
                 THEN UNCHANGED <<waitKind, waitPc, waitResult>>
                 ELSE /\ waitPc' = "returned"
                      /\ waitResult' = status_verdict(waitKind, st)
                      /\ UNCHANGED waitKind

\* one round of wait_resource_status: fetch, classify, sleep
StatusRound ==
    /\ waitKind \in StatusWaits /\ waitPc = "polling" /\ Len(seen) < MaxPolls
    /\ \/ \E e \in FetchErrors : Round(e, e)
       \/ \E st \in Statuses : Round(st, status_verdict(waitKind, st))

\* one round of fetch_until_not_found: GET, match, sleep
DeleteRound ==
    /\ waitKind = "delete" /\ waitPc = "polling" /\ Len(seen) < MaxPolls
    /\ \E r \in {"found"} \cup FetchErrors : Round(r, fetch_until_not_found(r))

InitWait ==
    /\ WorkflowParked /\ RemoteParked /\ PagesParked /\ CallsParked
    /\ waitKind \in WaitKinds /\ waitPc = "polling"
    /\ seen = <<>> /\ sleeps = 0 /\ waitResult = "pending"

WaitAside == UNCHANGED <<workflow, remote, pages, calls>>
NextWait ==
    \/ StatusRound /\ WaitAside
    \/ DeleteRound /\ WaitAside
SpecWait == InitWait /\ [][NextWait]_vars

\* the sets each status wait is called with, and what a call has observed
WorkingSet(kind) ==
    CASE kind = "available" -> {"uploading", "migrating"}
      [] kind = "up" -> {"cleaning"}
      [] kind = "down" -> {"up", "cleaning"}
SuccessSet(kind) ==
    CASE kind = "available" -> {"available"}
      [] kind = "up" -> {"up"}
      [] kind = "down" -> {"down"}
FailureSet(kind) ==
    CASE kind = "available" -> {"failed"}
      [] kind = "up" -> {"down"}
      [] kind = "down" -> {}
Latest == seen[Len(seen)]
OnlyWorkingBefore ==
    seen # <<>> /\ \A i \in 1..(Len(seen) - 1) : seen[i] \in WorkingSet(waitKind)
Returned(r) == waitPc = "returned" /\ waitResult = r

\* C14: after n working values and then a success value the status wait has
\* returned success, having slept exactly n times, on the fetch that observed
\* the success value; a call that returned fetches no more.
C14_Counted ==
    (waitKind \in StatusWaits /\ OnlyWorkingBefore /\ Latest \in SuccessSet(waitKind))
        => (Returned("ok") /\ sleeps = Len(seen) - 1)
C14_NoFetchAfterReturn == waitPc = "returned" => UNCHANGED <<seen, sleeps, waitResult>>
C14_SuccessAfterWorking == [](C14_Counted) /\ [][C14_NoFetchAfterReturn]_vars
C14_Witness ==
    /\ waitKind = "down" /\ Returned("ok") /\ sleeps = 2
    /\ seen = <<"up", "cleaning", "down">>

\* C15: after working values and then a value of the failure set the status
\* wait has returned ResourceApiWaitStatusFailed on that fetch, and a call that
\* returned success never observed a value of the failure set.
C15_FailureValueFails ==
    waitKind \in StatusWaits =>
        /\ (OnlyWorkingBefore /\ Latest \in FailureSet(waitKind))
              => (Returned("ResourceApiWaitStatusFailed") /\ sleeps = Len(seen) - 1)
        /\ waitResult = "ok"
              => \A i \in 1..Len(seen) : seen[i] \notin FailureSet(waitKind)
C15_Witness ==
    /\ waitKind = "available" /\ Returned("ResourceApiWaitStatusFailed")
    /\ seen = <<"migrating", "failed">>

\* C16: a fetch that observes a status value of none of the three sets makes
\* the status wait return ResourceApiWaitStatusUnknown at once, with no sleep
\* after that fetch and no further fetch.
InNoSet(kind, st) ==
    /\ st \in Statuses \ {"unknown"}
    /\ st \notin WorkingSet(kind) \cup SuccessSet(kind) \cup FailureSet(kind)
C16_Immediate ==
    (waitKind \in StatusWaits /\ OnlyWorkingBefore /\ InNoSet(waitKind, Latest))
        => (Returned("ResourceApiWaitStatusUnknown") /\ sleeps = Len(seen) - 1)
C16_Last == (seen # << >> /\ InNoSet(waitKind, Latest)) => seen' = seen
C16_UnknownValueReturns == [](C16_Immediate) /\ [][C16_Last]_vars
C16_Witness ==
    /\ waitKind = "up" /\ Returned("ResourceApiWaitStatusUnknown")
    /\ seen = <<"cleaning", "available">>

\* C17: wait_available polls on uploading and migrating, succeeds on available
\* and fails on failed; wait_up polls on cleaning and succeeds on up;
\* wait_down succeeds on down; each has returned success exactly when its
\* latest fetch observed its success value.
ClaimedSuccess(kind) ==
    CASE kind = "available" -> "available" [] kind = "up" -> "up" [] kind = "down" -> "down"
ClaimedWorking(kind) ==
    CASE kind = "available" -> {"uploading", "migrating"} [] kind = "up" -> {"cleaning"}
C17_ConcreteSets ==
    waitKind \in StatusWaits =>
        /\ waitResult = "ok" <=> (seen # <<>> /\ Latest = ClaimedSuccess(waitKind))
        /\ waitKind \in {"available", "up"} =>
             /\ \A i \in 1..Len(seen) :
                  seen[i] \in ClaimedWorking(waitKind) <=> (i < Len(seen) \/ waitPc = "polling")
        /\ waitKind = "available" =>
             (waitResult = "ResourceApiWaitStatusFailed" <=> (seen # <<>> /\ Latest = "failed"))
C17_Witness ==
    /\ waitKind = "available" /\ Returned("ok")
    /\ seen = <<"uploading", "migrating", "available">>

\* C18: the delete wait has returned success exactly when its latest GET was
\* answered not found; any other error is returned as it is on the GET that
\* met it; after a successful GET the loop sleeps and goes on polling.
C18_DeleteWait ==
    waitKind = "delete" =>
        /\ waitResult = "ok" <=> (seen # <<>> /\ Latest = "ApiNotFound")
        /\ \A i \in 1..Len(seen) : seen[i] = "found" <=> (i < Len(seen) \/ waitPc = "polling")
        /\ (seen # <<>> /\ Latest \in FetchErrors \ {"ApiNotFound"}) => Returned(Latest)
        /\ waitPc = "polling" => sleeps = Len(seen)
        /\ waitPc = "returned" => sleeps = Len(seen) - 1
C18_Witness ==
    /\ waitKind = "delete" /\ Returned("ok")
    /\ seen = <<"found", "found", "ApiNotFound">>

\* ============================================================ search of api.rs
\* One call of search: every round sends one GET with From = index_from and
\* reads Total, From, Count and the resource array of the response, in this
\* order.  The provider chooses each response.

MaxTotal == 3       \* resources in the provider's listing
MaxCount == 2       \* resources in one page
MaxRequests == 3    \* requests of one call followed in a behaviour

\* a response: its Total, From and Count (Missing when not a u64) and the
\* length of its resource array (Missing when it is no array)
Pages ==
    [Total : {total, Missing}, From : {index_from, index_from + 1, Missing},
     Count : 0..MaxCount \cup {Missing}, Array : 0..MaxCount \cup {Missing}]

\* the resources of the n-th response, in the provider's order
Resources(n, r) == [j \in 1..r.Array |-> <<n, j>>]

\* the loop goes on after a page that reaches the total exactly
last_page_Beyond(from, count, reported) == from + count > reported

\* an empty page ends the loop
last_page_OrEmpty(from, count, reported) == from + count >= reported \/ count = 0

\* if index_from + count >= total { break; }
last_page(from, count, reported) == from + count >= reported

SearchReturn(kind, from) ==
    /\ searchPc' = "returned"
    /\ searchResult' = [kind |-> kind, from |-> from]

\* a reported From that differs is taken over
SearchRound_Resync ==
    /\ searchPc = "looping" /\ Len(requests) < MaxRequests
    /\ requests' = Append(requests, index_from)
    /\ \E r \in Pages :
         /\ responses' = Append(responses, r)
         /\ IF r.Total = Missing \/ r.From = Missing \/ r.Count = Missing \/ r.Array = Missing
              THEN /\ SearchReturn("SearchApiInvalidResponse", Missing)
                   /\ UNCHANGED <<total, index_from, result_resources>>
              ELSE /\ result_resources' = result_resources \o Resources(Len(requests) + 1, r)
                   /\ IF last_page(r.From, r.Count, r.Total)
                        THEN /\ SearchReturn("ok", Missing)
                             /\ UNCHANGED <<total, index_from>>
                        ELSE /\ index_from' = r.From + r.Count
                             /\ UNCHANGED <<searchPc, total, searchResult>>

\* one round of the loop of search
SearchRound ==
    /\ searchPc = "looping" /\ Len(requests) < MaxRequests
    /\ requests' = Append(requests, index_from)
    /\ \/ /\ SearchReturn("ApiServiceUnavailable", Missing)
          /\ UNCHANGED <<total, index_from, result_resources, responses>>
       \/ \E r \in Pages :
            /\ responses' = Append(responses, r)
            /\ IF r.Total = Missing
                 THEN /\ SearchReturn("SearchApiInvalidTotalCount", Missing)
                      /\ UNCHANGED <<total, index_from, result_resources>>
               ELSE IF r.From = Missing
                 THEN /\ SearchReturn("SearchApiInvalidIndexFrom", Missing)
                      /\ UNCHANGED <<total, index_from, result_resources>>
               ELSE IF index_from # r.From
                 THEN /\ SearchReturn("SearchApiInvalidIndexFrom", r.From)
                      /\ UNCHANGED <<total, index_from, result_resources>>
               ELSE IF r.Count = Missing
                 THEN /\ SearchReturn("SearchApiInvalidResourceCount", Missing)
                      /\ UNCHANGED <<total, index_from, result_resources>>
               ELSE IF r.Array = Missing
                 THEN /\ SearchReturn("SearchApiInvalidResourceArray", Missing)
                      /\ UNCHANGED <<total, index_from, result_resources>>
               ELSE /\ result_resources' = result_resources \o Resources(Len(requests) + 1, r)
                    /\ IF last_page(index_from, r.Count, r.Total)
                         THEN /\ SearchReturn("ok", Missing)
                              /\ UNCHANGED <<total, index_from>>
                         ELSE /\ index_from' = index_from + r.Count
                              /\ UNCHANGED <<searchPc, total, searchResult>>

InitSearch ==
    /\ WorkflowParked /\ RemoteParked /\ WaitsParked /\ CallsParked
    /\ searchPc = "looping" /\ total \in 0..MaxTotal /\ index_from = 0
    /\ result_resources = <<>> /\ searchResult = [kind |-> "pending", from |-> Missing]
    /\ requests = <<>> /\ responses = <<>>

SearchAside == UNCHANGED <<workflow, remote, waits, calls>>
NextSearch == SearchRound /\ SearchAside
SpecSearch == InitSearch /\ [][NextSearch]_vars

\* ------------------------------------------- search_single_resource of api.rs
\* the call runs search to its end and judges the number of resources it got;
\* `?` hands an Err of search on
SearchSingleResource ==
    /\ searchPc = "returned" /\ resolution.kind = "pending"
    /\ resolution' =
         IF searchResult.kind # "ok"
           THEN [kind |-> searchResult.kind, n |-> Missing, picked |-> <<>>]
           ELSE LET n == Len(result_resources)
                    r == search_single_resource(n) IN
                CASE r = "TooManyResources" -> [kind |-> r, n |-> n, picked |-> <<>>]
                  [] r = "None" -> [kind |-> r, n |-> Missing, picked |-> <<>>]
                  [] OTHER -> [kind |-> r, n |-> Missing, picked |-> result_resources[1]]
ResolveAside == UNCHANGED <<workflow, remote, waits, pages, requesting, connecting, racing, preparing, encoding>>
NextResolve ==
    \/ SearchRound /\ SearchAside
    \/ SearchSingleResource /\ ResolveAside
SpecResolve == InitSearch /\ [][NextResolve]_vars

\* ------------------------------- request_api, request_api_for_resource of api.rs
StatusCodes == 100..599
Accepted == {200, 201, 202, 204}
\* JSON values of a success marker: booleans, two strings, a number, null
MarkerValues == {"absent", "true", "false", "\"Accepted\"", "\"Done\"", "1", "null"}
as_bool(v) == v \in {"true", "false"}
as_str(v) == v \in {"\"Accepted\"", "\"Done\""}

Failure(kind, code) == [kind |-> kind, code |-> code]
Passed == [kind |-> "ok", code |-> Missing]

\* the match on res.status() for a code that is not accepted
status_error(code) ==
    CASE code = 400 -> Failure("ApiBadRequest", Missing)
      [] code = 401 -> Failure("ApiUnauthorized", Missing)
      [] code = 403 -> Failure("ApiForbidden", Missing)
      [] code = 404 -> Failure("ApiNotFound", Missing)
      [] code = 405 -> Failure("ApiMethodNotAllowed", Missing)
      [] code = 406 -> Failure("ApiNotAcceptable", Missing)
      [] code = 408 -> Failure("ApiRequestTimeout", Missing)
      [] code = 409 -> Failure("ApiConflict", Missing)
      [] code = 411 -> Failure("ApiLengthRequired", Missing)
      [] code = 413 -> Failure("ApiPayloadTooLarge", Missing)
      [] code = 415 -> Failure("ApiUnsupportedMediaType", Missing)
      [] code = 500 -> Failure("ApiInternalServerError", Missing)
      [] code = 503 -> Failure("ApiServiceUnavailable", Missing)
      [] OTHER -> Failure("ApiUnknownStatusCode", code)

\* every 2xx code is taken for success
request_api_Any2xx(r) ==
    IF r.code = Missing THEN Failure("RequestFailed", Missing)
    ELSE IF r.code \in 200..299
      THEN IF r.body = "json" THEN Passed ELSE Failure("InvalidResponseJson", Missing)
    ELSE status_error(r.code)

\* request_api: send, match on the status, parse the body
request_api(r) ==
    IF r.code = Missing THEN Failure("RequestFailed", Missing)
    ELSE IF r.code \in Accepted
      THEN IF r.body = "json" THEN Passed ELSE Failure("InvalidResponseJson", Missing)
    ELSE status_error(r.code)

\* if let Some(is_ok) = value.get("is_ok")
is_ok_verdict(v) ==
    IF v = "absent" THEN "ok"
    ELSE IF ~as_bool(v) THEN "ResourceApiInvalidStatusDataType"
    ELSE IF v = "false" THEN "ResourceApiInvalidStatusFalse"
    ELSE "ok"

\* any string under Success passes
success_verdict_AnyString(v) ==
    IF v = "absent" THEN "ok"
    ELSE IF as_str(v) THEN "ok"
    ELSE IF as_bool(v)
      THEN IF v = "false" THEN "ResourceApiInvalidStatusFalse" ELSE "ok"
    ELSE "ResourceApiInvalidStatusDataType"

\* if let Some(success_status) = value.get("Success")
success_verdict(v) ==
    IF v = "absent" THEN "ok"
    ELSE IF as_str(v)
      THEN IF v # "\"Accepted\"" THEN "ResourceApiInvalidStatusFalse" ELSE "ok"
    ELSE IF as_bool(v)
      THEN IF v = "false" THEN "ResourceApiInvalidStatusFalse" ELSE "ok"
    ELSE "ResourceApiInvalidStatusDataType"

\* request_api_for_resource: request_api(..)?, the two markers, the resource
request_api_for_resource(r, named) ==
    LET value == request_api(r) IN
    IF value.kind # "ok" THEN value
    ELSE IF is_ok_verdict(r.is_ok) # "ok" THEN Failure(is_ok_verdict(r.is_ok), Missing)
    ELSE IF success_verdict(r.Success) # "ok" THEN Failure(success_verdict(r.Success), Missing)
    ELSE IF named = "Some" /\ r.resource # "object"
      THEN Failure("ResourceApiInvalidResourceObject", Missing)
    ELSE Passed

ApiReturn(by, result) ==
    /\ reqPc = "call" /\ reqPc' = "returned"
    /\ apiResult' = [by |-> by, kind |-> result.kind, code |-> result.code]
    /\ UNCHANGED <<reply, resource_name>>

\* a call of request_api itself (search)
RequestApi == resource_name = "None" /\ ApiReturn("request_api", request_api(reply))

\* create, update, delete, power and fetch calls
RequestApiForResource ==
    ApiReturn("request_api_for_resource", request_api_for_resource(reply, resource_name))

\* the body of a reply whose status is not accepted is logged, never parsed
Replies ==
    {NoReply} \cup
    [code : StatusCodes \ Accepted, body : {"json"}, is_ok : {"absent"},
     Success : {"absent"}, resource : {"absent"}] \cup
    [code : Accepted, body : {"json", "garbage"}, is_ok : MarkerValues,
     Success : MarkerValues, resource : {"object", "absent"}]

InitRequest ==
    /\ WorkflowParked /\ RemoteParked /\ WaitsParked /\ PagesParked
    /\ ResolveParked /\ SshParked /\ RaceParked /\ PrepareParked /\ EncodingParked
    /\ reqPc = "call" /\ reply \in Replies /\ resource_name \in {"None", "Some"}
    /\ apiResult = [by |-> "none", kind |-> "pending", code |-> Missing]

RequestAside == UNCHANGED <<workflow, remote, waits, pages, resolving, connecting, racing, preparing, encoding>>
NextRequest ==
    \/ RequestApi /\ RequestAside
    \/ RequestApiForResource /\ RequestAside
SpecRequest == InitRequest /\ [][NextRequest]_vars

\* --------------------------------------------------- Session::connect of ssh.rs
MaxElapsed == 340           \* the clock is followed up to here and then stands
BudgetSecs == 300           \* Duration::from_secs(60 * 5)
RetrySecs == 20             \* interval(Duration::from_secs(20))
ProbeIntervalSecs == 10     \* interval(Duration::from_secs(10))
ProbeTimeoutSecs == 5       \* timeout(Duration::from_secs(5), ..)
ConnectTimeoutSecs == 20    \* connect_timeout(Duration::from_secs(20))

Capped(t) == IF t > MaxElapsed THEN MaxElapsed ELSE t
\* tokio Interval::tick: completes at the deadline, at once when it has passed;
\* the first deadline is the creation of the interval
tick(t, deadline) == IF deadline > t THEN deadline ELSE t

\* the tick waits a whole period from the moment it is awaited
tick_Sleep(t, deadline, period) == Capped(t + period)
\* interval.tick().await of new_session
retry_tick(t, deadline, period) == Capped(tick(t, deadline))

SshReturn(kind, of) ==
    /\ sshPc' = "returned" /\ sshResult' = [kind |-> kind, of |-> of]

\* wait_for_ssh_connectable: one round of its loop
WaitForSshConnectable ==
    /\ sshPc = "probe"
    /\ \/ \* Ok(Ok(_)): return Ok(())
          /\ sshPc' = "handshake" /\ probed' = TRUE
          /\ UNCHANGED <<now, probeTickAt, probeBeat>>
       \/ \* Ok(Err(e)) at once, or Err(_) after the timeout: tick and go round
          \E d \in {0, ProbeTimeoutSecs} :
            /\ now' = Capped(tick(Capped(now + d), probeTickAt))
            /\ probeTickAt' = Capped(probeTickAt + ProbeIntervalSecs)
            /\ probeBeat' = 1 - probeBeat
            /\ UNCHANGED <<sshPc, probed>>
    /\ UNCHANGED <<stage, tickAt, attempts, failedAt, late, sshResult>>

\* new_session is entered: start_time, the interval, the first probe
Enter(which) ==
    /\ sshPc' = "probe" /\ stage' = which
    /\ now' = 0 /\ tickAt' = 0 /\ probeTickAt' = 0 /\ probeBeat' = 0
    /\ probed' = FALSE /\ attempts' = 0 /\ failedAt' = Missing /\ late' = 0
    /\ UNCHANGED sshResult

\* new_session: one pass of its loop from the handshake on
NewSession ==
    /\ sshPc = "handshake"
    /\ \/ \* Ok(session) => break session
          IF stage = "session" THEN Enter("sftp_session")
          ELSE /\ sshPc' = "subsystem" /\ attempts' = attempts + 1
               /\ UNCHANGED <<stage, now, tickAt, probeTickAt, probeBeat, probed, failedAt,
                              late, sshResult>>
       \/ \* Err(e)
          \E d \in {0, ConnectTimeoutSecs} :
            LET t == Capped(now + d) IN
            /\ attempts' = attempts + 1 /\ failedAt' = t /\ probed' = FALSE
            /\ UNCHANGED <<stage, probeBeat>>
            /\ IF t > BudgetSecs
                 THEN /\ SshReturn("OpensshError", attempts + 1)
                      /\ late' = late + 1 /\ now' = t
                      /\ UNCHANGED <<tickAt, probeTickAt>>
                 ELSE /\ now' = retry_tick(t, tickAt, RetrySecs)
                      /\ tickAt' = tickAt + RetrySecs
                      /\ probeTickAt' = now'
                      /\ sshPc' = "probe"
                      /\ UNCHANGED <<late, sshResult>>

\* Sftp::from_session(sftp_session, ..).await?
SftpFromSession ==
    /\ sshPc = "subsystem"
    /\ \/ SshReturn("ok", Missing)
       \/ SshReturn("OpensshSftpError", Missing)
    /\ UNCHANGED <<stage, now, tickAt, probeTickAt, probeBeat, probed, attempts, failedAt,
                   late>>

InitSsh ==
    /\ WorkflowParked /\ RemoteParked /\ WaitsParked /\ PagesParked
    /\ ResolveParked /\ RequestParked /\ RaceParked /\ PrepareParked /\ EncodingParked
    /\ sshPc = "probe" /\ stage = "session" /\ now = 0 /\ tickAt = 0 /\ probeTickAt = 0
    /\ probeBeat = 0 /\ probed = FALSE /\ attempts = 0 /\ failedAt = Missing /\ late = 0
    /\ sshResult = [kind |-> "pending", of |-> Missing]

SshAside == UNCHANGED <<workflow, remote, waits, pages, resolving, requesting, racing, preparing, encoding>>
NextSsh ==
    \/ WaitForSshConnectable /\ SshAside
    \/ NewSession /\ SshAside
    \/ SftpFromSession /\ SshAside
SpecSsh == InitSsh /\ [][NextSsh]_vars
\* the runtime keeps running the call: every round of a loop is a step
FairSsh == SpecSsh /\ WF_vars(NextSsh)

\* ----------------------------- two UpdateCmd::run on one prefix, VPC router and switch
MaxRaceRuns == 2      \* runs one runner starts in a behaviour

GetOf(k) == IF k = "vpc" THEN "vpc_get" ELSE "sw_get"
CreateOf(k) == IF k = "vpc" THEN "vpc_create" ELSE "sw_create"
AfterOf(k) == IF k = "vpc" THEN "sw_get" ELSE "done"

\* a run is started on the prefix
RaceStart(r) ==
    /\ racePc[r] \in {"idle", "done"} /\ raceRuns[r] < MaxRaceRuns
    /\ racePc' = [racePc EXCEPT ![r] = "vpc_get"]
    /\ raceOut' = [raceOut EXCEPT ![r] = "running"]
    /\ raceSaw' = [raceSaw EXCEPT ![r] = {}]
    /\ raceRuns' = [raceRuns EXCEPT ![r] = raceRuns[r] + 1]
    /\ UNCHANGED raceCnt

\* <Equipment>::try_get(prefix) and, for a resource that was found, the reads
\* made on it (wait_available, is_connected_to_switch)
RaceTryGet(r, k) ==
    /\ racePc[r] = GetOf(k)
    /\ LET v == search_single_resource(raceCnt[k]) IN
         CASE v = "Some" -> /\ racePc' = [racePc EXCEPT ![r] = AfterOf(k)]
                            /\ raceOut' = [raceOut EXCEPT ![r] =
                                             IF AfterOf(k) = "done" THEN "passed" ELSE @]
                            /\ UNCHANGED raceSaw
           [] v = "None" -> /\ racePc' = [racePc EXCEPT ![r] = CreateOf(k)]
                            /\ raceSaw' = [raceSaw EXCEPT ![r] = @ \cup {k}]
                            /\ UNCHANGED raceOut
           [] OTHER -> /\ racePc' = [racePc EXCEPT ![r] = "done"]
                       /\ raceOut' = [raceOut EXCEPT ![r] = v]
                       /\ UNCHANGED raceSaw
    /\ UNCHANGED <<raceRuns, raceCnt>>

\* the provider refuses a second resource of the name
RaceCreate_Unique(r, k) ==
    /\ racePc[r] = CreateOf(k)
    /\ raceCnt' = [raceCnt EXCEPT ![k] = IF @ = 0 THEN 1 ELSE @]
    /\ racePc' = [racePc EXCEPT ![r] = AfterOf(k)]
    /\ raceOut' = [raceOut EXCEPT ![r] = IF AfterOf(k) = "done" THEN "passed" ELSE @]
    /\ UNCHANGED <<raceSaw, raceRuns>>

\* <Equipment>::create(prefix) and the calls on the new resource
\* (wait_available, connect_to_switch): a POST, names are not unique
RaceCreate(r, k) ==
    /\ racePc[r] = CreateOf(k)
    /\ raceCnt' = [raceCnt EXCEPT ![k] = @ + 1]
    /\ racePc' = [racePc EXCEPT ![r] = AfterOf(k)]
    /\ raceOut' = [raceOut EXCEPT ![r] = IF AfterOf(k) = "done" THEN "passed" ELSE @]
    /\ UNCHANGED <<raceSaw, raceRuns>>

InitRace ==
    /\ WorkflowParked /\ RemoteParked /\ WaitsParked /\ PagesParked
    /\ ResolveParked /\ RequestParked /\ SshParked /\ PrepareParked /\ EncodingParked
    /\ racePc = [r \in Runners |-> "idle"] /\ raceOut = [r \in Runners |-> "none"]
    /\ raceSaw = [r \in Runners |-> {}] /\ raceRuns = [r \in Runners |-> 0]
    /\ raceCnt \in [RaceKinds -> 0..1]

RaceAside ==
    UNCHANGED <<workflow, remote, waits, pages, resolving, requesting, connecting, preparing,
               encoding>>
NextRace ==
    \/ \E r \in Runners : RaceStart(r) /\ RaceAside
    \/ \E r \in Runners, k \in RaceKinds : RaceTryGet(r, k) /\ RaceAside
    \/ \E r \in Runners, k \in RaceKinds : RaceCreate(r, k) /\ RaceAside
SpecRace == InitRace /\ [][NextRace]_vars

\* ------------------------------------------------ service_script.rs: prepare

\* the put_file calls of prepare_for_server, in the order of the code
PrepFiles ==
    <<"root-setup.zsh", "user-setup.zsh",
      "not_yet_started", "not_yet_finished", "not_yet_success">>
\* the marker files among the first n files put
Armed(files, n) == {files[i] : i \in 1..n} \cap Sentinels

\* prepare_for_server that arms the start marker a second time at the end
PrepareForServer_Twice ==
    /\ phase = "prepare"
    /\ \E n \in 0..Len(PrepFiles) :
         /\ sentinels' = sentinels \cup Armed(PrepFiles, n)
         /\ IF n = Len(PrepFiles)
              THEN /\ puts' = Append(PrepFiles, "not_yet_started")
                   /\ phase' = "start" /\ doneResult' = "pending"
              ELSE /\ puts' = SubSeq(PrepFiles, 1, n)
                   /\ phase' = "returned"
                   /\ doneResult' \in (IF n = 0 THEN {"RenderError", "SshError"}
                                                ELSE {"SshError"})
    /\ UNCHANGED <<elapsed, proc, sawStart>>

\* prepare_for_server: render, connect, then five put_file calls; `?` after a
\* render, the connect or a put returns with the files put so far left in place.
\* After Ok the server is power-cycled and wait_for_done connects.
PrepareForServer ==
    /\ phase = "prepare"
    /\ \E n \in 0..Len(PrepFiles) :
         /\ puts' = SubSeq(PrepFiles, 1, n)
         /\ sentinels' = sentinels \cup Armed(PrepFiles, n)
         /\ IF n = Len(PrepFiles)
              THEN phase' = "start" /\ doneResult' = "pending"
              ELSE /\ phase' = "returned"
                   /\ doneResult' \in (IF n = 0 THEN {"RenderError", "SshError"}
                                                ELSE {"SshError"})
    /\ UNCHANGED <<elapsed, proc, sawStart>>

\* the host before a run: markers an earlier run left behind may be present
InitPrepare ==
    /\ WorkflowParked /\ WaitsParked /\ PagesParked
    /\ ResolveParked /\ RequestParked /\ SshParked /\ RaceParked /\ EncodingParked
    /\ phase = "prepare" /\ elapsed = 0 /\ doneResult = "pending"
    /\ proc = "pending" /\ sentinels \in SUBSET Sentinels /\ sawStart = "none"
    /\ puts = <<>>

PrepareAside ==
    UNCHANGED <<workflow, waits, pages, resolving, requesting, connecting, racing, encoding>>
NextPrepare ==
    \/ PrepareForServer /\ PrepareAside
    \/ NextDone
SpecPrepare == InitPrepare /\ [][NextPrepare]_vars

\* ----------------------------------------------------- api.rs: serde formats

JString(s) == Val("string", "", s, Missing, <<>>)
JNumber(n) == Val("number", "", "", n, <<>>)
JBool(s) == Val("boolean", "", s, Missing, <<>>)
JObject(members) == Val("object", "", "", Missing, members)
JArray(items) == Val("array", "", "", Missing, items)
Keyed(key, j) == [j EXCEPT !.k = key]
\* Value::get(key) on an object
Member(j, key) ==
    IF j.t = "object" /\ \E i \in 1..Len(j.items) : j.items[i].k = key
      THEN Keyed("", j.items[CHOOSE i \in 1..Len(j.items) : j.items[i].k = key])
      ELSE Absent

\* Option::None and the Some(..) values the builders store
Unset == Val("None", "", "", Missing, <<>>)
IdString(s) == Val("ResourceId::String", "", s, Missing, <<>>)
IdInteger(n) == Val("ResourceId::Integer", "", "", n, <<>>)
SomeText(s) == Val("String", "", s, Missing, <<>>)
SomeRef(id) == Val("Ref", "", "", Missing, <<id>>)
SomeU64(n) == Val("u64", "", "", n, <<>>)
SomeBool(s) == Val("bool", "", s, Missing, <<>>)
SomeVariant(v) == Val("Variant", "", v, Missing, <<>>)
SomeVec(items) == Val("Vec", "", "", Missing, items)
SwitchOf(id) == Val("ConnectedSwitch::Switch", "", "", Missing, <<id>>)
SharedSwitch == Val("ConnectedSwitch::Shared", "", "", Missing, <<>>)

EntityKinds == {"Server", "Disk", "SshPublicKey", "Switch"}
\* the fields of each info struct: serde name and type, in declaration order
FieldsOf(kind) ==
    CASE kind = "Server" ->
           << <<"Name", "text">>, <<"ServerPlan", "ref">>, <<"Description", "text">>,
              <<"HostName", "text">>, <<"InterfaceDriver", "driver">>,
              <<"ConnectedSwitches", "switches">>, <<"WaitDiskMigration", "bool">> >>
      [] kind = "Disk" ->
           << <<"Name", "text">>, <<"Description", "text">>, <<"Plan", "ref">>,
              <<"SourceArchive", "ref">>, <<"SizeMB", "u64">>,
              <<"Connection", "connection">>, <<"Server", "ref">> >>
      [] kind = "SshPublicKey" ->
           << <<"Name", "text">>, <<"Description", "text">>, <<"PublicKey", "text">> >>
      [] kind = "Switch" ->
           << <<"Name", "text">>, <<"Description", "text">> >>
Names(kind) == {FieldsOf(kind)[i][1] : i \in 1..Len(FieldsOf(kind))}
IndexOf(kind, key) == CHOOSE i \in 1..Len(FieldsOf(kind)) : FieldsOf(kind)[i][1] = key

\* #[serde(rename = ..)] of the unit variants
VariantJson(v) ==
    CASE v = "Virtio" -> "virtio" [] v = "E1000" -> "e1000" [] v = "Ide" -> "ide"
VariantsOf(type) == IF type = "driver" THEN {"Virtio", "E1000"} ELSE {"Virtio", "Ide"}

SampleIds == {IdString("ID_A"), IdString("111"), IdInteger(111)}
\* what a builder can leave in a field of the given type
Choices(type) ==
    {Unset} \cup
    CASE type = "text" -> {SomeText("NAME")}
      [] type = "ref" -> {SomeRef(id) : id \in SampleIds}
      [] type = "u64" -> {SomeU64(222)}
      [] type = "bool" -> {SomeBool("true"), SomeBool("false")}
      [] type \in {"driver", "connection"} -> {SomeVariant(v) : v \in VariantsOf(type)}
      [] type = "switches" ->
           {SomeVec(<<>>), SomeVec(<<SwitchOf(IdString("ID_A"))>>),
            SomeVec(<<SwitchOf(IdInteger(111)), SwitchOf(IdString("shared"))>>)}
RECURSIVE Infos(_)
Infos(fields) ==
    IF fields = <<>> THEN {<<>>}
    ELSE {<<v>> \o rest : v \in Choices(Head(fields)[2]), rest \in Infos(Tail(fields))}

\* ResourceId written as a JSON string whichever variant it is
serialize_id_AsText(id) ==
    IF id.t = "ResourceId::String" THEN JString(id.s)
    ELSE JString(IF id.n = 111 THEN "111" ELSE "0")

\* #[serde(untagged)] enum ResourceId { String(String), Integer(u64) }
serialize_id(id) ==
    IF id.t = "ResourceId::String" THEN JString(id.s) ELSE JNumber(id.n)
deserialize_id(j) ==
    IF j.t = "string" THEN IdString(j.s)
    ELSE IF j.t = "number" /\ j.n >= 0 THEN IdInteger(j.n)
    ELSE Invalid

\* struct XxxRef { #[serde(rename = "ID")] id }
serialize_ref(id) == JObject(<<Keyed("ID", serialize_id(id))>>)
deserialize_ref(j) ==
    IF j.t = "object" /\ deserialize_id(Member(j, "ID")) # Invalid
      THEN SomeRef(deserialize_id(Member(j, "ID")))
      ELSE Invalid

\* impl Serialize / Deserialize for ConnectedSwitch
serialize_switch(cs) ==
    IF cs.t = "ConnectedSwitch::Shared"
      THEN JObject(<<Keyed("Scope", JString("shared"))>>)
      ELSE serialize_ref(cs.items[1])
deserialize_switch(j) ==
    IF j.t = "object"
      THEN IF Member(j, "Scope") = JString("shared")
             THEN SharedSwitch
             ELSE IF deserialize_ref(j) = Invalid THEN Invalid
                  ELSE SwitchOf(deserialize_ref(j).items[1])
      ELSE Invalid

\* one Some(..) field as serde writes it
serialize_field(type, v) ==
    CASE type = "text" -> JString(v.s)
      [] type = "ref" -> serialize_ref(v.items[1])
      [] type = "u64" -> JNumber(v.n)
      [] type = "bool" -> JBool(v.s)
      [] type \in {"driver", "connection"} -> JString(VariantJson(v.s))
      [] type = "switches" ->
           JArray([i \in 1..Len(v.items) |-> serialize_switch(v.items[i])])
\* one Option<..> field as serde reads it: a missing member is None
deserialize_field(type, j) ==
    IF j = Absent THEN Unset
    ELSE CASE type = "text" -> IF j.t = "string" THEN SomeText(j.s) ELSE Invalid
           [] type = "ref" -> deserialize_ref(j)
           [] type = "u64" -> IF j.t = "number" /\ j.n >= 0 THEN SomeU64(j.n) ELSE Invalid
           [] type = "bool" -> IF j.t = "boolean" THEN SomeBool(j.s) ELSE Invalid
           [] type \in {"driver", "connection"} ->
                IF j.t = "string" /\ \E v \in VariantsOf(type) : VariantJson(v) = j.s
                  THEN SomeVariant(CHOOSE v \in VariantsOf(type) : VariantJson(v) = j.s)
                  ELSE Invalid
           [] type = "switches" ->
                IF j.t = "array"
                     /\ \A i \in 1..Len(j.items) : deserialize_switch(j.items[i]) # Invalid
                  THEN SomeVec([i \in 1..Len(j.items) |-> deserialize_switch(j.items[i])])
                  ELSE Invalid

\* XxxInfo::to_value: skip_serializing_if = "Option::is_none" on every field
to_value(kind, info) ==
    [key \in JsonKeys |->
       IF key \in Names(kind) /\ info[IndexOf(kind, key)] # Unset
         THEN serialize_field(FieldsOf(kind)[IndexOf(kind, key)][2], info[IndexOf(kind, key)])
         ELSE Absent]

\* Instance { Status } of a Server
deserialize_instance(j) ==
    IF j = Absent THEN Absent
    ELSE IF Member(j, "Status").t = "string"
              /\ Member(j, "Status").s \in {"cleaning", "up", "down"}
           THEN j
           ELSE Invalid

\* Xxx::from_value: ID, #[serde(flatten)] info, members not named are ignored
from_value(kind, doc) ==
    LET id == deserialize_id(doc["ID"])
        instance == IF kind = "Server" THEN deserialize_instance(doc["Instance"]) ELSE Absent
        info == [i \in 1..Len(FieldsOf(kind)) |->
                   deserialize_field(FieldsOf(kind)[i][2], doc[FieldsOf(kind)[i][1]])]
    IN IF id = Invalid \/ instance = Invalid \/ \E i \in 1..Len(info) : info[i] = Invalid
         THEN [kind |-> "ResourceDeserializationFailed", id |-> Invalid,
               instance |-> Absent, info |-> <<>>]
         ELSE [kind |-> "Ok", id |-> id, instance |-> instance, info |-> info]

\* the members a response carries besides the info: none of them is a field
UnknownKeys(kind) ==
    JsonKeys \ (Names(kind) \cup {"ID"} \cup (IF kind = "Server" THEN {"Instance"} ELSE {}))
Instances(kind) ==
    IF kind = "Server"
      THEN {Absent, JObject(<<Keyed("Status", JString("up"))>>)}
      ELSE {Absent}

\* XxxInfo::builder() ... .build()
Build ==
    /\ jsonPc = "new"
    /\ jsonInfo' \in Infos(FieldsOf(jsonKind))
    /\ jsonPc' = "built"
    /\ UNCHANGED <<jsonKind, jsonId, jsonDoc, jsonIn, jsonEntity>>

\* json!({ "Xxx": &info })
Serialize ==
    /\ jsonPc = "built"
    /\ jsonDoc' = to_value(jsonKind, jsonInfo)
    /\ jsonPc' = "serialized"
    /\ UNCHANGED <<jsonKind, jsonId, jsonInfo, jsonIn, jsonEntity>>

\* Xxx::from_value of that JSON with an ID and members that are not fields
Deserialize ==
    /\ jsonPc = "serialized"
    /\ \E extra \in {{"UnknowField"}, UnknownKeys(jsonKind)}, inst \in Instances(jsonKind) :
         LET doc == [key \in JsonKeys |->
                       IF key = "ID" THEN serialize_id(jsonId)
                       ELSE IF key = "Instance" /\ jsonKind = "Server" THEN inst
                       ELSE IF key \in extra THEN JString("UNKNOWN")
                       ELSE jsonDoc[key]]
         IN /\ jsonIn' = doc
            /\ jsonEntity' = from_value(jsonKind, doc)
    /\ jsonPc' = "parsed"
    /\ UNCHANGED <<jsonKind, jsonId, jsonInfo, jsonDoc>>

InitJson ==
    /\ WorkflowParked /\ RemoteParked /\ WaitsParked /\ PagesParked
    /\ ResolveParked /\ RequestParked /\ SshParked /\ RaceParked /\ PrepareParked
    /\ jsonPc = "new" /\ jsonKind \in EntityKinds /\ jsonId \in SampleIds
    /\ jsonInfo = <<>>
    /\ jsonDoc = [key \in JsonKeys |-> Absent] /\ jsonIn = [key \in JsonKeys |-> Absent]
    /\ jsonEntity = NoEntity

JsonAside ==
    UNCHANGED <<workflow, remote, waits, pages, resolving, requesting, connecting, racing,
                preparing>>
NextJson ==
    \/ Build /\ JsonAside
    \/ Serialize /\ JsonAside
    \/ Deserialize /\ JsonAside
SpecJson == InitJson /\ [][NextJson]_vars


\* what the call has been served so far
Answered == responses # <<>> /\ Len(responses) = Len(requests)
Complete(r) ==
    r.Total # Missing /\ r.From # Missing /\ r.Count # Missing /\ r.Array # Missing
Echoing == \A i \in 1..Len(responses) : Complete(responses[i]) /\ responses[i].From = requests[i]
RECURSIVE CountSum(_)
CountSum(n) == IF n = 0 THEN 0 ELSE CountSum(n - 1) + responses[n].Count
RECURSIVE Concatenated(_)
Concatenated(n) ==
    IF n = 0 THEN <<>> ELSE Concatenated(n - 1) \o Resources(n, responses[n])
LastRequest == requests[Len(requests)]
LastResponse == responses[Len(responses)]

\* C19: while every response is complete and echoes the requested From, the
\* requests carry From = 0 and then the sum of the Counts received, the
\* resources collected are the arrays received in order, and the call has
\* returned them exactly when the Counts received reach the Total; a call
\* that returned sends no request.
C19_Collected ==
    (Answered /\ Echoing) =>
        /\ \A i \in 1..Len(requests) : requests[i] = CountSum(i - 1)
        /\ \A i \in 1..(Len(responses) - 1) : CountSum(i) < total
        /\ result_resources = Concatenated(Len(responses))
        /\ IF CountSum(Len(responses)) >= total
             THEN searchPc = "returned" /\ searchResult.kind = "ok"
             ELSE searchPc = "looping" /\ index_from = CountSum(Len(responses))
C19_Stops == searchPc = "returned" => UNCHANGED <<requests, responses, result_resources>>
C19_PagesConcatenated == [](C19_Collected) /\ [][C19_Stops]_vars
C19_Witness ==
    /\ searchPc = "returned" /\ searchResult.kind = "ok" /\ total = 3
    /\ requests = <<0, 1, 1>> /\ Len(result_resources) = 3

\* C20 (as claimed): a response that reports a From other than the requested
\* one makes search fail with SearchApiInvalidIndexFrom carrying that value.
Mismatched == Answered /\ LastResponse.From \notin {Missing, LastRequest}
C20_AnyMismatchIsIndexFrom ==
    Mismatched =>
        /\ searchPc = "returned"
        /\ searchResult = [kind |-> "SearchApiInvalidIndexFrom", from |-> LastResponse.From]

\* C20 (amended): a response that carries a Total and reports a From other
\* than the requested one makes search fail with SearchApiInvalidIndexFrom
\* carrying that value; one without a Total fails with
\* SearchApiInvalidTotalCount; either way the offset stays the requested one,
\* nothing of the response is collected and no request follows.
C20_Failed ==
    Mismatched =>
        /\ searchPc = "returned"
        /\ searchResult =
             IF LastResponse.Total # Missing
               THEN [kind |-> "SearchApiInvalidIndexFrom", from |-> LastResponse.From]
               ELSE [kind |-> "SearchApiInvalidTotalCount", from |-> Missing]
        /\ index_from = LastRequest
        /\ result_resources = Concatenated(Len(responses) - 1)
C20_Final == Mismatched => UNCHANGED <<requests, responses, index_from, searchResult>>
C20_MismatchFails == [](C20_Failed) /\ [][C20_Final]_vars
C20_Witness ==
    /\ searchResult = [kind |-> "SearchApiInvalidIndexFrom", from |-> 2]
    /\ requests = <<0, 1>> /\ Len(result_resources) = 1

\* the arguments each invalid-response Error of search is built from:
\* "value" is the response, "query" the request's query, "from" the reported From
error_carries(kind) ==
    CASE kind = "SearchApiInvalidTotalCount" -> {"path", "query"}
      [] kind = "SearchApiInvalidIndexFrom" -> {"from", "path", "query"}
      [] kind = "SearchApiInvalidResourceCount" -> {"path", "query"}
      [] kind = "SearchApiInvalidResourceArray" -> {"value", "path", "query"}
      [] OTHER -> {"path", "body"}
InvalidSearchErrors ==
    {"SearchApiInvalidTotalCount", "SearchApiInvalidIndexFrom",
     "SearchApiInvalidResourceCount", "SearchApiInvalidResourceArray"}

\* C21: a search response that lacks a well-typed Total, From, Count or
\* resource array makes search fail with the error of the first such field,
\* and that error carries the response value.
C21_InvalidResponseCarried ==
    (Answered /\ ~Complete(LastResponse)) =>
        /\ searchResult.kind \in InvalidSearchErrors
        /\ "value" \in error_carries(searchResult.kind)

\* C22: search_single_resource answers None for no resource, that resource
\* for exactly one, and TooManyResources with their number for two or more;
\* an error of the search is handed on.
Matches == Len(result_resources)
C22_SingleOrNothing ==
    resolution.kind # "pending" =>
        /\ searchPc = "returned"
        /\ IF searchResult.kind # "ok"
             THEN resolution = [kind |-> searchResult.kind, n |-> Missing, picked |-> <<>>]
           ELSE IF Matches = 0
             THEN resolution = [kind |-> "None", n |-> Missing, picked |-> <<>>]
           ELSE IF Matches = 1
             THEN resolution = [kind |-> "Some", n |-> Missing, picked |-> result_resources[1]]
           ELSE resolution = [kind |-> "TooManyResources", n |-> Matches, picked |-> <<>>]
C22_Witness ==
    /\ resolution = [kind |-> "TooManyResources", n |-> 3, picked |-> <<>>]
    /\ Len(requests) = 2

\* C23: in request_api_for_resource, once the status is accepted and the body
\* parsed, whatever the accepted status is: is_ok passes when absent or true,
\* Success when absent, true or "Accepted"; the first marker that does not
\* pass (is_ok before Success) fails the call, with
\* ResourceApiInvalidStatusFalse for false or another string and with
\* ResourceApiInvalidStatusDataType for a value of another type; with both
\* passing, neither error is returned.
Indicated(marker, v) ==
    IF v \in {"absent", "true"} \/ (marker = "Success" /\ v = "\"Accepted\"") THEN "ok"
    ELSE IF v = "false" \/ (marker = "Success" /\ v = "\"Done\"")
      THEN "ResourceApiInvalidStatusFalse"
    ELSE "ResourceApiInvalidStatusDataType"
MarkerErrors == {"ResourceApiInvalidStatusFalse", "ResourceApiInvalidStatusDataType"}
Enveloped ==
    /\ reqPc = "returned" /\ apiResult.by = "request_api_for_resource"
    /\ reply.code \in {200, 201, 202, 204} /\ reply.body = "json"
C23_MarkersDecide ==
    Enveloped =>
        IF Indicated("is_ok", reply.is_ok) # "ok"
          THEN apiResult.kind = Indicated("is_ok", reply.is_ok)
        ELSE IF Indicated("Success", reply.Success) # "ok"
          THEN apiResult.kind = Indicated("Success", reply.Success)
        ELSE /\ apiResult.kind \notin MarkerErrors
             /\ (resource_name = "None" \/ reply.resource = "object") => apiResult.kind = "ok"
C23_Witness ==
    /\ Enveloped /\ reply.code = 201
    /\ reply.is_ok = "true" /\ reply.Success = "\"Done\""
    /\ apiResult.kind = "ResourceApiInvalidStatusFalse"

\* C24: a reply passes the status check of request_api exactly when its code
\* is 200, 201, 202 or 204, and no other code yields a successful result; each
\* of the thirteen listed codes yields its own error; every other code yields
\* ApiUnknownStatusCode with that code.
Listed ==
    (400 :> "ApiBadRequest") @@ (401 :> "ApiUnauthorized") @@ (403 :> "ApiForbidden") @@
    (404 :> "ApiNotFound") @@ (405 :> "ApiMethodNotAllowed") @@ (406 :> "ApiNotAcceptable") @@
    (408 :> "ApiRequestTimeout") @@ (409 :> "ApiConflict") @@ (411 :> "ApiLengthRequired") @@
    (413 :> "ApiPayloadTooLarge") @@ (415 :> "ApiUnsupportedMediaType") @@
    (500 :> "ApiInternalServerError") @@ (503 :> "ApiServiceUnavailable")
C24_StatusMapping ==
    (reqPc = "returned" /\ reply.code # Missing) =>
        /\ apiResult.kind = "ok" => reply.code \in {200, 201, 202, 204}
        /\ (reply.code \in {200, 201, 202, 204} /\ apiResult.by = "request_api") =>
               apiResult.kind = IF reply.body = "json" THEN "ok" ELSE "InvalidResponseJson"
        /\ reply.code \in DOMAIN Listed =>
               /\ apiResult.kind = Listed[reply.code] /\ apiResult.code = Missing
               /\ \A c \in DOMAIN Listed : Listed[c] = apiResult.kind => c = reply.code
        /\ reply.code \notin {200, 201, 202, 204} \cup DOMAIN Listed =>
               apiResult.kind = "ApiUnknownStatusCode" /\ apiResult.code = reply.code
C24_Witness ==
    /\ reqPc = "returned" /\ reply.code = 203
    /\ apiResult = [by |-> "request_api", kind |-> "ApiUnknownStatusCode", code |-> 203]

\* a handshake attempt of new_session that ended in Err
HandshakeFailed == sshPc = "handshake" /\ failedAt' # failedAt /\ attempts' = attempts + 1

C25_Probed ==
    /\ sshPc = "handshake" => probed
    /\ IF sshResult.kind = "OpensshError"
         THEN late = 1 /\ failedAt > BudgetSecs /\ sshResult.of = attempts
         ELSE late = 0 /\ failedAt <= BudgetSecs
C25_Retry ==
    HandshakeFailed =>
        IF failedAt' <= BudgetSecs
          THEN /\ sshPc' = "probe" /\ ~probed' /\ sshResult' = sshResult
               /\ now' = tick(failedAt', RetrySecs * attempts)
          ELSE /\ sshPc' = "returned" /\ now' = failedAt'
               /\ sshResult' = [kind |-> "OpensshError", of |-> attempts']
C26_ConnectReturns == <>(sshPc = "returned")

\* the step of UpdateCmd::run a position belongs to; the note, key and archive
\* calls are made inside the disk step
StepOf(p) ==
    IF p \in {"u_vpc_get", "u_vpc_create", "u_vpc_wait"} THEN "vpc"
    ELSE IF p \in {"u_sw_get", "u_sw_check", "u_sw_create", "u_sw_connect"} THEN "sw"
    ELSE IF p \in {"u_srv_get", "u_srv_check", "u_srv_create"} THEN "srv"
    ELSE IF p \in {"u_disk_get", "u_note_get", "u_note_sync", "u_note_create", "u_note_wait",
                   "u_key_get", "u_key_create", "u_archive", "u_disk_create", "u_disk_wait"}
      THEN "disk"
    ELSE IF p \in {"done", "g_update", "g_apply", "g_wait"} THEN "exit"
    ELSE "later"
WaitOf(k) ==
    CASE k = "vpc" -> "u_vpc_wait"
      [] k = "sw" -> "u_sw_wait"
      [] k = "srv" -> "u_srv_wait"
      [] k = "disk" -> "u_disk_wait"

\* C27: an Update run leaves the step of the VPC router, the switch, the
\* server or the disk for a later step only by a wait_available on that
\* resource that returned success.
C27_Leaves ==
    (cmd = "update" /\ StepOf(pc) \in AllFour /\ StepOf(pc') \notin {StepOf(pc), "exit"}) =>
        pc = WaitOf(StepOf(pc))
C27_AvailableBeforeNextStep == [][C27_Leaves]_vars

\* C28: no Update run ends in a panic.
C28_NoPanic == cmd = "update" => outcome # "panic"

\* C29: update_content_if_needed sends one update of the note when its stored
\* content differs from the script and none when it is equal, leaves the
\* content equal to the script, and neither deletes nor creates a note; no
\* step of the program makes the content differ, so a second application
\* sends no update.
C29_Applied ==
    (pc = "u_note_sync" /\ pc' = "u_note_wait") =>
        /\ log' = IF noteStale THEN Append(log, <<"update", "note">>) ELSE log
        /\ ~noteStale'
        /\ cnt' = cnt /\ deleting' = deleting
C29_NoDrift == noteStale' => noteStale
C29_Once == Count(<<"update", "note">>) <= 1 /\ ~Has(<<"delete", "note">>)
C29_DriftCorrected == [](C29_Once) /\ [][C29_Applied /\ C29_NoDrift]_vars
C29_Witness ==
    /\ cmd = "update" /\ pc = "u_note_wait" /\ runs = 2 /\ prev.cmd = "update"
    /\ Count(<<"update", "note">>) = 1 /\ ~Has(<<"create", "note">>)
    /\ cnt["note"] = 1 /\ ~noteStale

\* C30: an Update run enters the server step from the note checkpoint.
C30_Enters ==
    (cmd = "update" /\ pc' = "u_srv_get" /\ pc # "u_srv_get") =>
        pc \in {"u_note_sync", "u_note_wait"}
C30_NoteBeforeServer == [][C30_Enters]_vars

\* C31: in an Update run every connect_to_switch request directly follows the
\* creation of the switch in the same run, after a try_get that found none;
\* the check of a switch that already existed changes nothing at the provider
\* and never leads to the connect request.
C31_Connects ==
    \A i \in 1..Len(log) :
        log[i] = <<"connect", "sw">> =>
            /\ i > 1 /\ log[i - 1] = <<"create", "sw">>
            /\ "sw" \in sawNone
C31_Checks ==
    (cmd = "update" /\ pc = "u_sw_check" /\ pc' # pc) =>
        /\ UNCHANGED provider
        /\ pc' # "u_sw_connect"
        /\ ~(\E i \in 1..Len(log') : log'[i] = <<"connect", "sw">>)
C31_NeverRewires == [](C31_Connects) /\ [][C31_Checks]_vars
C31_Witness ==
    /\ cmd = "update" /\ Finished /\ outcome = "PrimarySwitchNotConnectedToVpcRouter"
    /\ cnt["sw"] = 1 /\ ~swConn /\ ~Has(<<"connect", "sw">>) /\ ~Has(<<"create", "sw">>)

\* C32: no run waits for another: a run that saw no resource of a kind creates
\* one whatever the other run has done since, so the provider's count grows by
\* one with every create; a try_get that meets two or more resources of the
\* name ends its run with TooManyResources.
C32_Blind ==
    \A r \in Runners, k \in RaceKinds :
        (racePc[r] = CreateOf(k) /\ racePc'[r] # racePc[r]) =>
            /\ k \in raceSaw[r]
            /\ raceCnt'[k] = raceCnt[k] + 1
C32_Judged ==
    \A r \in Runners, k \in RaceKinds :
        (racePc[r] = GetOf(k) /\ racePc'[r] # racePc[r] /\ raceCnt[k] >= 2) =>
            racePc'[r] = "done" /\ raceOut'[r] = "TooManyResources"
C32_CreatesRace == [][C32_Blind /\ C32_Judged]_vars
C32_Witness ==
    /\ raceCnt["sw"] = 2 /\ raceCnt["vpc"] = 1
    /\ raceRuns[1] = 1 /\ raceOut[1] = "passed" /\ "sw" \in raceSaw[1]
    /\ raceRuns[2] = 2 /\ raceOut[2] = "TooManyResources" /\ racePc[2] = "done"

\* C33: the local process writes remote files only in prepare_for_server, which
\* puts each of the three markers exactly once; a round of wait_for_done leaves
\* the files written, the markers present and the process table as they were.
C33_OncePerRun ==
    /\ \A f \in Sentinels : Cardinality({i \in 1..Len(puts) : puts[i] = f}) <= 1
    /\ phase \in {"start", "finish"} \/ (phase = "returned" /\ sawStart # "none")
          => \A f \in Sentinels : Cardinality({i \in 1..Len(puts) : puts[i] = f}) = 1
C33_ReadOnly ==
    /\ puts' # puts => phase = "prepare"
    /\ sentinels' \ sentinels # {} => phase = "prepare"
    /\ (phase \in {"start", "finish"} /\ <<phase', elapsed'>> # <<phase, elapsed>>)
          => UNCHANGED <<puts, sentinels, proc>>
C33_WritesOnlyInPrepare == [](C33_OncePerRun) /\ [][C33_ReadOnly]_vars
C33_Witness ==
    /\ phase = "returned" /\ doneResult = "ok" /\ sawStart = "process"
    /\ puts = PrepFiles /\ sentinels = {} /\ proc = "gone"
    /\ elapsed > 0

\* C34: for Server, Disk, SshPublicKey and Switch, the JSON of a built info has
\* exactly the members of the fields that were set, a string ID as a JSON string
\* and an integer ID as a JSON number; from_value of that JSON with an ID and
\* with members that are not fields returns the given id and the original info.
C34_Emits ==
    jsonPc \in {"serialized", "parsed"} =>
      /\ \A key \in JsonKeys :
            jsonDoc[key] # Absent
              <=> (key \in Names(jsonKind) /\ jsonInfo[IndexOf(jsonKind, key)] # Unset)
      /\ \A i \in 1..Len(jsonInfo) :
            jsonInfo[i].t = "Ref" =>
              LET id == jsonInfo[i].items[1]
                  written == Member(jsonDoc[FieldsOf(jsonKind)[i][1]], "ID")
              IN IF id.t = "ResourceId::String"
                   THEN written = JString(id.s)
                   ELSE written = JNumber(id.n)
C34_Reads ==
    jsonPc = "parsed" =>
      /\ jsonEntity.kind = "Ok"
      /\ jsonEntity.id = jsonId
      /\ jsonEntity.info = jsonInfo
      /\ jsonIn["ID"].t = (IF jsonId.t = "ResourceId::String" THEN "string" ELSE "number")
C34_JsonRoundTrip == C34_Emits /\ C34_Reads
C34_Witness ==
    /\ jsonPc = "parsed" /\ jsonKind = "Disk" /\ jsonId = IdInteger(111)
    /\ jsonInfo[1] = Unset /\ jsonInfo[3] = SomeRef(IdString("111"))
    /\ jsonInfo[7] = SomeRef(IdInteger(111))
    /\ jsonDoc["Name"] = Absent /\ jsonIn["PublicKey"] = JString("UNKNOWN")
    /\ jsonEntity.kind = "Ok" /\ jsonEntity.info = jsonInfo

\* C35: an Update run that reaches the remote phase completes prepare_for_server
\* (the two scripts, then the started, finished and success markers), then
\* powers the server down, waits for down, powers it up, waits for up, and only
\* then calls wait_for_done; this holds on every run, also one that created nothing.
LogTail(n) == SubSeq(log, Len(log) - n + 1, Len(log))
C35_Armed ==
    /\ {PrepFiles[1], PrepFiles[2]} = {"root-setup.zsh", "user-setup.zsh"}
    /\ SubSeq(PrepFiles, 3, 5) = <<"not_yet_started", "not_yet_finished", "not_yet_success">>
C35_Position ==
    cmd = "update" =>
      /\ Count(<<"prepare", "srv">>) <= 1
      /\ pc = "u_srv_down" => Len(log) >= 1 /\ LogTail(1) = << <<"prepare", "srv">> >>
      /\ pc \in {"u_srv_waitdown", "u_srv_up2"}
            => Len(log) >= 2 /\ LogTail(2) = << <<"prepare", "srv">>, <<"down", "srv">> >>
      /\ pc \in {"u_srv_waitup2", "u_wait_done"}
            => /\ Len(log) >= 3
               /\ LogTail(3) = << <<"prepare", "srv">>, <<"down", "srv">>, <<"up", "srv">> >>
      /\ outcome = "ok"
            => \E p \in 1..(Len(log) - 2) :
                 /\ log[p] = <<"prepare", "srv">>
                 /\ log[p + 1] = <<"down", "srv">>
                 /\ log[p + 2] = <<"up", "srv">>
C35_Step ==
    (cmd = "update" /\ pc' # pc) =>
      /\ pc' = "u_srv_down" => pc = "u_prepare" /\ C35_Armed
      /\ pc' = "u_srv_waitdown" => pc = "u_srv_down"
      /\ pc' = "u_srv_up2" => pc = "u_srv_waitdown" /\ power["srv"] = "down"
      /\ pc' = "u_srv_waitup2" => pc = "u_srv_up2"
      /\ pc' = "u_wait_done" => pc = "u_srv_waitup2" /\ power["srv"] = "up"
      /\ pc = "u_wait_done" => pc' \in {"done", "g_update"}
C35_RemoteOrder == [](C35_Position) /\ [][C35_Step]_vars
C35_Witness ==
    /\ cmd = "update" /\ Finished /\ outcome = "ok"
    /\ Ops("create") = {} /\ startCnt = cnt
    /\ Has(<<"prepare", "srv">>) /\ Has(<<"down", "srv">>) /\ Has(<<"up", "srv">>)

\* C36: wait_up returns ResourceApiWaitStatusFailed on the first poll that
\* observes the status down, whatever it observed before; wait_down never
\* returns that error and polls again after observing up or cleaning.
C36_UpOnDown ==
    waitKind = "up" =>
      /\ \A i \in 1..Len(seen) :
            seen[i] = "down"
              => /\ i = Len(seen) /\ waitPc = "returned"
                 /\ waitResult = "ResourceApiWaitStatusFailed"
                 /\ sleeps = i - 1
      /\ waitResult = "ResourceApiWaitStatusFailed" => seen[Len(seen)] = "down"
C36_DownNeverFails ==
    waitKind = "down" =>
      /\ waitResult # "ResourceApiWaitStatusFailed"
      /\ \A i \in 1..Len(seen) :
            seen[i] \in {"up", "cleaning"}
              => (i = Len(seen) => waitPc = "polling") /\ sleeps >= i
      /\ waitResult = "ok" => seen[Len(seen)] = "down"
C36_PowerWaits == C36_UpOnDown /\ C36_DownNeverFails
C36_Witness ==
    /\ waitKind = "up" /\ waitPc = "returned" /\ seen = <<"cleaning", "down">>
    /\ waitResult = "ResourceApiWaitStatusFailed" /\ sleeps = 1

\* C37: when the start phase was left on seeing the process and the process is
\* gone while the not_yet_started marker is still present, every finish poll
\* whose probes return polls again or returns TimeoutToFinish after the finish
\* timeout; the call returns, and never with IllegallyStopped, Failed or success.
C37_Orphaned ==
    /\ phase = "finish" /\ sawStart = "process"
    /\ proc = "gone" /\ "not_yet_started" \in sentinels
C37_KeepsPolling ==
    (C37_Orphaned /\ Probed) =>
       \/ C37_Orphaned' /\ doneResult' = "pending" /\ elapsed' > elapsed
       \/ /\ phase' = "returned" /\ doneResult' = "TimeoutToFinish"
          /\ elapsed' > FinishTimeoutSecs
C37_Classified ==
    doneResult \in {"IllegallyStopped", "Failed", "ok"}
      => proc # "running" /\ "not_yet_started" \notin sentinels
C37_OrphanTimesOut ==
    /\ [](C37_Classified)
    /\ [][C37_KeepsPolling]_vars
    /\ (C37_Orphaned ~> (phase = "returned" /\ doneResult \in {"TimeoutToFinish", "SshError"}))
C37_Witness ==
    /\ phase = "returned" /\ doneResult = "TimeoutToFinish" /\ sawStart = "process"
    /\ proc = "gone" /\ sentinels = Sentinels /\ elapsed > FinishTimeoutSecs

\* C38: a response that echoes the requested From and reports Count = 0 with
\* From + Count < Total makes search request the same From again; as long as
\* the provider answers that way the call is still looping at that From.
C38_EmptyPage(i) ==
    /\ responses[i].Total # Missing /\ responses[i].Count # Missing
    /\ responses[i].Array # Missing
    /\ responses[i].From = requests[i]
    /\ responses[i].Count = 0
    /\ responses[i].From + responses[i].Count < responses[i].Total
C38_SameFromAgain ==
    \A i \in 1..Len(responses) :
       C38_EmptyPage(i) =>
          IF i < Len(requests)
            THEN requests[i + 1] = requests[i]
            ELSE searchPc = "looping" /\ index_from = requests[i]
                   /\ searchResult.kind = "pending"
C38_Witness ==
    /\ Len(requests) = MaxRequests /\ Len(responses) = MaxRequests
    /\ \A i \in 1..Len(requests) : requests[i] = 0 /\ C38_EmptyPage(i)
    /\ searchPc = "looping" /\ index_from = 0

\* C39: Update reads the public key file before any provider call: a run that
\* fails with PrimarySshPublicKeyGivenButCouldntRead ended at the read and has
\* sent no request, whatever exists at the provider; every run that goes on
\* holds a key, so PrimarySshPublicKeyNotGivenForNewServerDisk is never returned.
C39_ReadFails ==
    cmd = "update" =>
      /\ outcome = "PrimarySshPublicKeyGivenButCouldntRead"
            => faultAt = "u_read_key" /\ log = <<>> /\ sawNone = {} /\ ~guard
      /\ outcome # "PrimarySshPublicKeyNotGivenForNewServerDisk"
      /\ pubkey # NoKey
C39_ReadStep ==
    /\ pc' # pc /\ pc' = "u_read_key" => pc = "done" /\ log' = <<>> /\ UNCHANGED provider
    /\ pc' # pc /\ pc = "u_read_key"
         => /\ cmd = "update" /\ UNCHANGED provider /\ log' = <<>> /\ sawNone' = {}
            /\ \/ pc' = "u_vpc_get" /\ outcome' = "running"
               \/ pc' = "done" /\ outcome' = "PrimarySshPublicKeyGivenButCouldntRead"
    /\ pc' # pc /\ pc' = "u_vpc_get" => pc = "u_read_key"
C39_KeyReadFirst == [](C39_ReadFails) /\ [][C39_ReadStep]_vars
C39_Witness ==
    /\ cmd = "update" /\ Finished
    /\ outcome = "PrimarySshPublicKeyGivenButCouldntRead"
    /\ cnt["disk"] = 1 /\ cnt["key"] = 1 /\ cnt["srv"] = 1
    /\ log = <<>> /\ sawNone = {}

\* C40: a Clean run whose prompt was answered with something other than the
\* prefix returns Ok at once, having sent no lookup, power-down or delete; a
\* run with --force or a matching answer goes on to the lookups and the
\* instance status check.
C40_Declined ==
    (cmd = "clean" /\ Has(<<"declined", "clean">>)) =>
      /\ pc = "done" /\ outcome = "ok"
      /\ log = << <<"declined", "clean">> >>
      /\ found = {} /\ sawNone = {} /\ faultAt = "none"
C40_Prompt ==
    (runs' # runs /\ cmd' = "clean") =>
      /\ UNCHANGED provider
      /\ \/ pc' = "done" /\ outcome' = "ok" /\ log' = << <<"declined", "clean">> >>
         \/ pc' = "c_vpc_get" /\ outcome' = "running" /\ log' = <<>>
C40_Proceeds ==
    (cmd = "clean" /\ pc' # pc /\ pc' = "c_vpc_poll") =>
      pc = "c_disk_get" /\ ~Has(<<"declined", "clean">>)
C40_ConfirmedOrNothing == [](C40_Declined) /\ [][C40_Prompt /\ C40_Proceeds]_vars
C40_Witness ==
    /\ cmd = "clean" /\ Finished /\ outcome = "ok"
    /\ log = << <<"declined", "clean">> >>
    /\ \A k \in AllFour : cnt[k] = 1
    /\ power["srv"] = "up" /\ deleting = {}

====
